---- MODULE Spec2Model ----
(***************************************************************************)
(* bilibili-monitor: the protocol client of src/bilibili_monitor/bilibili.py *)
(* as a state machine.  The state is the module's process-wide globals (the *)
(* session's cookie jar, the device-identity flag and pair, the ticket and  *)
(* its expiry, the signing key and its fetch time) and the wall clock.      *)
(* Every public operation is one action; the remote server's replies, the   *)
(* random identifiers and the time a sleep takes are its inputs.            *)
(*                                                                         *)
(* Python strings are TLA+ strings.  Python's None is the value None below; *)
(* Truthy(v) is Python's truth test of an Optional[str].  A helper that     *)
(* talks to the network is an operator from the state to the SET of its     *)
(* possible outcomes, one per reply the server can give.                    *)
(***************************************************************************)
EXTENDS Integers, Sequences, FiniteSets, TLC

VARIABLES
    cookies,                 \* _SESSION.cookies: cookie name -> value
    BUVID_FETCHED,           \* _BUVID_FETCHED
    BUVID_PAIR,              \* _BUVID_PAIR (<<>> is None)
    BILI_TICKET,             \* _BILI_TICKET
    BILI_TICKET_EXPIRES_AT,  \* _BILI_TICKET_EXPIRES_AT
    WBI_MIXIN_KEY,           \* _WBI_MIXIN_KEY
    WBI_LAST_FETCHED,        \* _WBI_LAST_FETCHED
    now,                     \* time.time(), in whole seconds
    ticks,                   \* how often the clock has advanced (bounds the run)
    phase,                   \* "init" until BilibiliMonitor.__init__ has run
    env,                     \* what the world outside can do in this run
    seen,                    \* State._seen: str(mid) -> category -> ids, oldest first
    cycles,                  \* how many polling cycles have run (bounds the run)
    last                     \* the operation that ran last: inputs, requests, result

vars == <<cookies, BUVID_FETCHED, BUVID_PAIR, BILI_TICKET, BILI_TICKET_EXPIRES_AT,
          WBI_MIXIN_KEY, WBI_LAST_FETCHED, now, ticks, phase, env, seen, cycles, last>>

-----------------------------------------------------------------------------
(* Bounds of the model *)

\* How often the clock may advance in a run, per world (see the worlds below)
MaxTicks == 3

MaxTicksAll == 2

MaxTicksDevice == 1

MaxTicksContent == 1

Mids == {7}

Limits == {2}

-----------------------------------------------------------------------------
(* Python values *)

None == "None"

Truthy(v) == v # None /\ v # ""

Bind(S, f(_)) == UNION {f(x) : x \in S}

NoExc == [type |-> "none", text |-> ""]

RuntimeError(text) == [type |-> "RuntimeError", text |-> text]

\* What curl_cffi raises for a connection error, a timeout, a non-2xx status
\* (raise_for_status) or a body that is no JSON: not a RuntimeError.
TransportError == [type |-> "RequestsError", text |-> "HTTP Error"]

Digit(d) == SubSeq("0123456789", d + 1, d + 1)

RECURSIVE NatText(_)
NatText(n) == IF n < 10 THEN Digit(n) ELSE NatText(n \div 10) \o Digit(n % 10)

\* str(n) / f"{n}" of an int
IntText(n) == IF n < 0 THEN "-" \o NatText(-n) ELSE NatText(n)

\* pat in text
Contains(text, pat) ==
    \E i \in 1..(Len(text) - Len(pat) + 1) : SubSeq(text, i, i + Len(pat) - 1) = pat

-----------------------------------------------------------------------------
(* The session *)

AuthFields == {"sessdata", "bili_jct", "buvid3", "buvid4", "dedeuserid", "dedeuserid_ckmd5"}

\* The mapping with the names of the first two fields exchanged
AUTH_COOKIE_MAPPING_EXCHANGED ==
    [sessdata |-> "bili_jct", bili_jct |-> "SESSDATA", buvid3 |-> "buvid3",
     buvid4 |-> "buvid4", dedeuserid |-> "DedeUserID",
     dedeuserid_ckmd5 |-> "DedeUserID__ckMd5"]

AUTH_COOKIE_MAPPING ==
    [sessdata |-> "SESSDATA", bili_jct |-> "bili_jct", buvid3 |-> "buvid3",
     buvid4 |-> "buvid4", dedeuserid |-> "DedeUserID",
     dedeuserid_ckmd5 |-> "DedeUserID__ckMd5"]

CookieNames ==
    {"b_nut", "CURRENT_FNVAL", "SESSDATA", "bili_jct", "buvid3", "buvid4",
     "DedeUserID", "DedeUserID__ckMd5", "buvid_fp", "opus-goback",
     "bili_ticket", "bili_ticket_expires"}

\* _seed_basic_cookies, for the cookies the model follows
seed_basic_cookies ==
    [c \in CookieNames |->
        IF c = "b_nut" THEN "0" ELSE IF c = "CURRENT_FNVAL" THEN "128" ELSE None]

set_cookie(jar, name, value) == [jar EXCEPT ![name] = value]

\* _SESSION.cookies.get(name)
get_cookie(jar, name) == jar[name]

\* The value an auth bundle gives a field: None, "" or a non-empty string.
AuthValue(f) == "cfg_" \o f

\* The bundles config.auth_cookies can hold in this model: no bundle, and the
\* bundles that set a given set of fields (the others None or "").
NoBundle == [f \in AuthFields |-> None]

BundleOf(S, blank) == [f \in AuthFields |-> IF f \in S THEN AuthValue(f) ELSE blank]

ConfigBundles ==
    {NoBundle,
     BundleOf({"sessdata", "bili_jct"}, ""),
     BundleOf({"buvid3"}, None),
     BundleOf({"buvid3", "buvid4"}, None),
     BundleOf(AuthFields, None)}

\* `if not cookies: return`; then one cookie per non-empty field
apply_auth_cookies(jar, bundle) ==
    IF \A f \in AuthFields : bundle[f] = None
        THEN jar
        ELSE [c \in CookieNames |->
                IF \E f \in AuthFields : AUTH_COOKIE_MAPPING[f] = c /\ Truthy(bundle[f])
                    THEN bundle[CHOOSE f \in AuthFields : AUTH_COOKIE_MAPPING[f] = c]
                    ELSE jar[c]]

-----------------------------------------------------------------------------
(* The machine state a helper works on: the globals, the clock, and the     *)
(* record of what the running operation has done so far.                    *)

Globals ==
    [cookies |-> cookies, BUVID_FETCHED |-> BUVID_FETCHED, BUVID_PAIR |-> BUVID_PAIR,
     BILI_TICKET |-> BILI_TICKET, BILI_TICKET_EXPIRES_AT |-> BILI_TICKET_EXPIRES_AT,
     WBI_MIXIN_KEY |-> WBI_MIXIN_KEY, WBI_LAST_FETCHED |-> WBI_LAST_FETCHED,
     clock |-> now, ticks |-> ticks]

\* trace: the requests sent and the steps taken, in order; replies: the
\* replies to the bootstrap, ticket and navigation requests; resps: the content
\* responses received; signed: what each content request was signed with.
NoReplies == [spi |-> <<>>, activate |-> <<>>, ticket |-> <<>>, nav |-> <<>>]

Start == [g |-> Globals, trace |-> <<>>, replies |-> NoReplies, resps |-> <<>>,
          signed |-> <<>>]

Log(st, event) == [st EXCEPT !.trace = Append(@, event)]

\* The request req was sent and answered by resp
Sent(st, req, resp) ==
    [st EXCEPT !.trace = Append(@, req), !.replies[req] = Append(@, resp)]

Requests == {"spi", "activate", "ticket", "nav", "content"}

IsRequest(e) == e \in Requests

\* The network requests of a trace, in order
NetCalls(trace) == SelectSeq(trace, IsRequest)

Count(trace, e) == Cardinality({i \in 1..Len(trace) : trace[i] = e})

-----------------------------------------------------------------------------
(* Outcomes.  A helper returns the set of [st, exc, val]: the state it      *)
(* leaves, the exception it raises (NoExc when it returns) and its value.   *)

Ok(st, val) == [st |-> st, exc |-> NoExc, val |-> val]

Raise(st, exc) == [st |-> st, exc |-> exc, val |-> None]

\* `except <clause>` catches exc
Catches(clause, exc) ==
    /\ exc # NoExc
    /\ \/ clause = "Exception"
       \/ clause = exc.type

\* Run f on every outcome that returned; an outcome that raised propagates.
Then(outs, f(_)) == UNION {IF o.exc = NoExc THEN f(o) ELSE {o} : o \in outs}

-----------------------------------------------------------------------------
(* The server's replies to the bootstrap requests.  ok = FALSE is a         *)
(* transport failure; the other fields are those of the JSON body.          *)

SpiOk == [ok |-> TRUE, b_3 |-> "srv3", b_4 |-> "srv4"]

SpiResponses ==
    {[ok |-> FALSE, b_3 |-> None, b_4 |-> None],
     SpiOk,
     [ok |-> TRUE, b_3 |-> None, b_4 |-> "srv4"]}

ActivateOk == [ok |-> TRUE, code |-> 0]

ActivateResponses ==
    {[ok |-> FALSE, code |-> 0], ActivateOk, [ok |-> TRUE, code |-> -1]}

TicketFail == [ok |-> FALSE, ticket |-> None]

TicketA == [ok |-> TRUE, ticket |-> "tkA"]

TicketResponses ==
    {TicketFail, [ok |-> TRUE, ticket |-> None], TicketA, [ok |-> TRUE, ticket |-> "tkB"]}

\* f"{uuid.uuid4().hex[:8]}infoc", twice: the pairs the fallback can draw
LocalPairs == {<<"loc3a", "loc4a">>, <<"loc3b", "loc4b">>}

-----------------------------------------------------------------------------
(* Device identity *)

fetch_buvid_pair(st) ==
    {IF ~resp.ok
        THEN Raise(Sent(st, "spi", resp), TransportError)
        ELSE IF ~Truthy(resp.b_3) \/ ~Truthy(resp.b_4)
            THEN Raise(Sent(st, "spi", resp),
                       RuntimeError("Failed to fetch buvid3/buvid4 from SPI endpoint"))
            ELSE Ok(Sent(st, "spi", resp), <<resp.b_3, resp.b_4>>)
     : resp \in env.spi}

\* The value is the pair it was given, so that the caller keeps it.
activate_buvid(st, pair) ==
    {IF ~resp.ok
        THEN Raise(Sent(st, "activate", resp), TransportError)
        ELSE IF resp.code # 0
            THEN Raise(Sent(st, "activate", resp),
                       RuntimeError("Failed to activate buvid: " \o IntText(resp.code)))
            ELSE Ok([Sent(st, "activate", resp) EXCEPT
                        !.g.cookies = set_cookie(@, "buvid_fp", "murmur_fp")], pair)
     : resp \in env.activate}

\* Storing the pair and rewriting the seeded b_nut cookie with it
store_buvid_and_b_nut(st, pair) ==
    [st EXCEPT
        !.g.cookies = set_cookie(set_cookie(set_cookie(set_cookie(@, "buvid3", pair[1]),
                                            "buvid4", pair[2]), "opus-goback", "1"),
                                 "b_nut", IntText(st.g.clock)),
        !.g.BUVID_PAIR = pair,
        !.g.BUVID_FETCHED = TRUE]

\* Lines 393-397: store the pair in the jar and in the globals
store_buvid(st, pair) ==
    [st EXCEPT
        !.g.cookies = set_cookie(set_cookie(set_cookie(@, "buvid3", pair[1]),
                                            "buvid4", pair[2]), "opus-goback", "1"),
        !.g.BUVID_PAIR = pair,
        !.g.BUVID_FETCHED = TRUE]

\* The test of line 378 on a value the jar never holds
has_buvid_cookies_never(existing3, existing4) ==
    Truthy(existing3) /\ Truthy(existing4) /\ existing3 = existing4

\* Line 378: both device cookies are in the jar
has_buvid_cookies(existing3, existing4) == Truthy(existing3) /\ Truthy(existing4)

\* `except RuntimeError` in place of `except Exception`
except_runtime_error == "RuntimeError"

\* The except clause of _ensure_buvid
buvid_except_clause == "Exception"

\* Lines 384-397: the two requests, or the local pair when either fails
request_buvid(st) ==
    LET tried == Then(fetch_buvid_pair(st), LAMBDA o : activate_buvid(o.st, o.val))
    IN  UNION {
            IF t.exc = NoExc
                THEN {Ok(store_buvid(t.st, t.val), None)}
                ELSE IF Catches(buvid_except_clause, t.exc)
                    THEN {Ok(store_buvid(
                                [Log(t.st, "buvid_fallback") EXCEPT
                                    !.g.cookies = set_cookie(@, "buvid_fp", "uuid_fp")],
                                local), None)
                          : local \in env.local}
                    ELSE {t}
            : t \in tried}

\* The flow with neither the flag nor the cookies consulted
ensure_buvid_each_call(st) == request_buvid(st)

ensure_buvid(st) ==
    IF st.g.BUVID_FETCHED
        THEN {Ok(st, None)}
        ELSE LET existing3 == get_cookie(st.g.cookies, "buvid3")
                 existing4 == get_cookie(st.g.cookies, "buvid4")
             IN  IF has_buvid_cookies(existing3, existing4)
                    THEN {Ok(store_buvid(st, <<existing3, existing4>>), None)}
                    ELSE request_buvid(st)

-----------------------------------------------------------------------------
(* Ticket *)

TICKET_LIFETIME == 3 * 24 * 60 * 60

TICKET_MARGIN == 60

\* The test of line 403 without its 60 seconds of margin
ticket_is_fresh_no_margin(st) ==
    Truthy(st.g.BILI_TICKET) /\ st.g.clock < st.g.BILI_TICKET_EXPIRES_AT

\* The test of line 403 with its comparison turned round
ticket_is_fresh_reversed(st) ==
    Truthy(st.g.BILI_TICKET) /\ st.g.clock > st.g.BILI_TICKET_EXPIRES_AT - TICKET_MARGIN

\* Line 403: the cached ticket is still good
ticket_is_fresh(st) ==
    Truthy(st.g.BILI_TICKET) /\ st.g.clock < st.g.BILI_TICKET_EXPIRES_AT - TICKET_MARGIN

\* `except RuntimeError` in place of `except Exception`, in _ensure_bili_ticket
ticket_except_runtime_error == "RuntimeError"

\* The except clause of _ensure_bili_ticket
ticket_except_clause == "Exception"

\* The body of the try without lines 423-429: the ticket is cached and not
\* written to the jar
gen_web_ticket_unmirrored(st) ==
    {LET ts == st.g.clock
         sent == Sent(st, "ticket", resp)
     IN  IF ~resp.ok
            THEN Raise(sent, TransportError)
            ELSE IF Truthy(resp.ticket)
                THEN Ok([sent EXCEPT
                            !.g.BILI_TICKET = resp.ticket,
                            !.g.BILI_TICKET_EXPIRES_AT = ts + TICKET_LIFETIME], None)
                ELSE Ok(sent, None)
     : resp \in env.ticket}

\* The body of the try without the test of line 422
gen_web_ticket_untested(st) ==
    {LET ts == st.g.clock
         sent == Sent(st, "ticket", resp)
     IN  IF ~resp.ok
            THEN Raise(sent, TransportError)
            ELSE Ok([sent EXCEPT
                        !.g.BILI_TICKET = resp.ticket,
                        !.g.BILI_TICKET_EXPIRES_AT = ts + TICKET_LIFETIME,
                        !.g.cookies =
                            set_cookie(set_cookie(@, "bili_ticket", resp.ticket),
                                       "bili_ticket_expires",
                                       IntText(ts + TICKET_LIFETIME))], None)
     : resp \in env.ticket}

\* Lines 406-430: the body of the try
gen_web_ticket(st) ==
    {LET ts == st.g.clock
         sent == Sent(st, "ticket", resp)
     IN  IF ~resp.ok
            THEN Raise(sent, TransportError)
            ELSE IF Truthy(resp.ticket)
                THEN Ok([sent EXCEPT
                            !.g.BILI_TICKET = resp.ticket,
                            !.g.BILI_TICKET_EXPIRES_AT = ts + TICKET_LIFETIME,
                            !.g.cookies =
                                set_cookie(set_cookie(@, "bili_ticket", resp.ticket),
                                           "bili_ticket_expires",
                                           IntText(ts + TICKET_LIFETIME))], None)
                ELSE Ok(sent, None)
     : resp \in env.ticket}

ensure_bili_ticket(st) ==
    IF ticket_is_fresh(st)
        THEN {Ok(st, None)}
        ELSE {IF Catches(ticket_except_clause, t.exc) THEN Ok(t.st, None) ELSE t
              : t \in gen_web_ticket(st)}

prepare_session(st) ==
    Then(ensure_buvid(st), LAMBDA o : ensure_bili_ticket(o.st))

-----------------------------------------------------------------------------
(* Signing key *)

WBI_MIXIN_KEY_ORDER ==
    <<
          46, 47, 18, 2, 53, 8, 23, 13, 41, 3, 10, 34, 6, 29, 58, 45,
          4, 14, 57, 12, 37, 27, 43, 5, 49, 26, 38, 54, 63, 9, 7, 61,
          21, 48, 32, 16, 50, 28, 15, 39, 56, 62, 35, 1, 60, 59, 24, 40,
          44, 30, 52, 0, 33, 51, 22, 31, 19, 11, 36, 55, 25, 17, 42, 20>>

WBI_KEY_LENGTH == 32

WBI_KEY_LIFETIME == 3600

\* The navigation endpoint's replies: the two asset URLs of data.wbi_img.
ImgA == "https://i0.hdslb.com/bfs/wbi/7cd084941338484aae1ad9425b84077c.png"
SubA == "https://i0.hdslb.com/bfs/wbi/4932caff0ff746eab6f01bf08b70ac45.png"
\* A second pair: a file name with two dots, and a URL with no slash
ImgB == "//i0.hdslb.com/bfs/wbi/0123456789abcdefghijklmnopqrstuv.min.png"
SubB == "ABCDEFGHIJKLMNOPQRSTUVWXYZ_-0123.png"

NavFail == [ok |-> FALSE, img_url |-> None, sub_url |-> None]

NavA == [ok |-> TRUE, img_url |-> ImgA, sub_url |-> SubA]

NavB == [ok |-> TRUE, img_url |-> ImgB, sub_url |-> SubB]

NavResponses ==
    {NavFail, [ok |-> TRUE, img_url |-> None, sub_url |-> SubA],
     [ok |-> TRUE, img_url |-> ImgA, sub_url |-> None], NavA, NavB}

\* The 1-based places of ch in text
Places(text, ch) == {i \in 1..Len(text) : SubSeq(text, i, i) = ch}

SetMax(S) == CHOOSE x \in S : \A y \in S : y <= x

SetMin(S) == CHOOSE x \in S : \A y \in S : x <= y

\* url.rsplit("/", 1)[-1].rsplit(".", 1)[0]: the cut at the last dot
extract_wbi_key_to_last_dot(url) ==
    LET slashes == Places(url, "/")
        tail == IF slashes = {} THEN url ELSE SubSeq(url, SetMax(slashes) + 1, Len(url))
        dots == Places(tail, ".")
    IN  IF dots = {} THEN tail ELSE SubSeq(tail, 1, SetMax(dots) - 1)

\* url.rsplit("/", 1)[-1].split(".")[0]
extract_wbi_key(url) ==
    LET slashes == Places(url, "/")
        tail == IF slashes = {} THEN url ELSE SubSeq(url, SetMax(slashes) + 1, Len(url))
        dots == Places(tail, ".")
    IN  IF dots = {} THEN tail ELSE SubSeq(tail, 1, SetMin(dots) - 1)

\* "".join(raw_key[idx] for idx in order[:n])
RECURSIVE JoinPicked(_, _, _)
JoinPicked(raw_key, order, n) ==
    IF n = 0 THEN ""
    ELSE JoinPicked(raw_key, order, n - 1) \o SubSeq(raw_key, order[n] + 1, order[n] + 1)

\* Lines 454-455 for the asset URLs of a reply: the key, or "" where
\* raw_key[idx] raises IndexError
derive_mixin_key(img_url, sub_url) ==
    LET raw_key == extract_wbi_key(img_url) \o extract_wbi_key(sub_url)
    IN  IF \E i \in 1..Len(WBI_MIXIN_KEY_ORDER) : WBI_MIXIN_KEY_ORDER[i] >= Len(raw_key)
            THEN ""
            ELSE SubSeq(JoinPicked(raw_key, WBI_MIXIN_KEY_ORDER, Len(WBI_MIXIN_KEY_ORDER)),
                        1, WBI_KEY_LENGTH)

\* derive_mixin_key, tabulated for the replies of the model
DerivedKeys ==
    [resp \in {r \in NavResponses : Truthy(r.img_url) /\ Truthy(r.sub_url)} |->
        derive_mixin_key(resp.img_url, resp.sub_url)]

compute_wbi_mixin_key(st) ==
    {LET sent == Sent(st, "nav", resp)
     IN  IF ~resp.ok
            THEN Raise(sent, TransportError)
            ELSE IF ~(Truthy(resp.img_url) /\ Truthy(resp.sub_url))
                THEN Raise(sent, RuntimeError(
                            "Failed to obtain wbi mixin key from nav response"))
                ELSE IF DerivedKeys[resp] = ""
                    THEN Raise(sent, [type |-> "IndexError",
                                      text |-> "string index out of range"])
                    ELSE Ok(sent, DerivedKeys[resp])
     : resp \in env.nav}

\* The test of line 461 with >= for >
wbi_needs_refresh_at_lifetime(st, force_refresh) ==
    \/ force_refresh
    \/ ~Truthy(st.g.WBI_MIXIN_KEY)
    \/ st.g.clock - st.g.WBI_LAST_FETCHED >= WBI_KEY_LIFETIME

\* A test that finds every key stale
wbi_needs_refresh_always(st, force_refresh) == TRUE

\* Line 461: the key has to be derived
wbi_needs_refresh(st, force_refresh) ==
    \/ force_refresh
    \/ ~Truthy(st.g.WBI_MIXIN_KEY)
    \/ st.g.clock - st.g.WBI_LAST_FETCHED > WBI_KEY_LIFETIME

\* _get_wbi_mixin_key stamping the fetch time before it derives the key
get_wbi_mixin_key_stamp_first(st, force_refresh) ==
    LET time_now == st.g.clock
    IN  IF wbi_needs_refresh(st, force_refresh)
            THEN Then(compute_wbi_mixin_key([st EXCEPT !.g.WBI_LAST_FETCHED = time_now]),
                      LAMBDA o : {Ok([o.st EXCEPT !.g.WBI_MIXIN_KEY = o.val], o.val)})
            ELSE {Ok(st, st.g.WBI_MIXIN_KEY)}

\* _get_wbi_mixin_key with a forced refresh that returns the new key and
\* leaves the cached one in place
get_wbi_mixin_key_unstored(st, force_refresh) ==
    LET time_now == st.g.clock
    IN  IF wbi_needs_refresh(st, force_refresh)
            THEN Then(compute_wbi_mixin_key(st),
                      LAMBDA o : {IF force_refresh
                                    THEN Ok(o.st, o.val)
                                    ELSE Ok([o.st EXCEPT !.g.WBI_MIXIN_KEY = o.val,
                                                         !.g.WBI_LAST_FETCHED = time_now],
                                            o.val)})
            ELSE {Ok(st, st.g.WBI_MIXIN_KEY)}

get_wbi_mixin_key(st, force_refresh) ==
    LET time_now == st.g.clock
    IN  IF wbi_needs_refresh(st, force_refresh)
            THEN Then(compute_wbi_mixin_key(st),
                      LAMBDA o : {Ok([o.st EXCEPT !.g.WBI_MIXIN_KEY = o.val,
                                                  !.g.WBI_LAST_FETCHED = time_now],
                                     o.val)})
            ELSE {Ok(st, st.g.WBI_MIXIN_KEY)}

\* The state effects of _sign_wbi_params and what the signature is made of:
\* the wts stamp and the mixin key appended to the query before hashing.
sign_wbi_params(st) ==
    Then(get_wbi_mixin_key(st, FALSE),
         LAMBDA o : {Ok(o.st, [wts |-> IntText(o.st.g.clock), mixin_key |-> o.val])})

-----------------------------------------------------------------------------
(* Signing.  A dict is the sequence of its <<key, value>> pairs in insertion *)
(* order; values are strings, or None.                                       *)

DictKeys(d) == {d[i][1] : i \in DOMAIN d}

DictGet(d, key) == d[CHOOSE i \in DOMAIN d : d[i][1] = key][2]

\* d.setdefault(key, value)
setdefault(d, key, value) ==
    IF key \in DictKeys(d) THEN d ELSE Append(d, <<key, value>>)

\* d[key] = value: a key the dict holds keeps its place
setitem(d, key, value) ==
    IF key \in DictKeys(d)
        THEN [i \in DOMAIN d |-> IF d[i][1] = key THEN <<key, value>> ELSE d[i]]
        ELSE Append(d, <<key, value>>)

\* A filter that lets the asterisk through
WBI_FORBIDDEN_BUT_ASTERISK == {"!", "'", "(", ")"}

\* The characters of line 479
WBI_FORBIDDEN == {"!", "'", "(", ")", "*"}

\* "".join(ch for ch in text if ch not in "!'()*")
RECURSIVE strip_forbidden(_)
strip_forbidden(text) ==
    IF text = "" THEN ""
    ELSE LET ch == SubSeq(text, 1, 1)
             rest == strip_forbidden(SubSeq(text, 2, Len(text)))
         IN  IF ch \in WBI_FORBIDDEN THEN rest ELSE ch \o rest

IsSet(value) == value # None

\* Lines 477-481: the dict comprehension
filtered_params(params) ==
    LET kept == SelectSeq(params, LAMBDA kv : IsSet(kv[2]))
    IN  [i \in DOMAIN kept |-> <<kept[i][1], strip_forbidden(kept[i][2])>>]

DM_RAND == "ABCDEFGHIJK"

\* "".join(random.sample(dm_rand, 2)): two places of dm_rand, not the same
RandomSamples ==
    {SubSeq(DM_RAND, i, i) \o SubSeq(DM_RAND, j, j) :
        <<i, j>> \in {p \in (1..Len(DM_RAND)) \X (1..Len(DM_RAND)) : p[1] # p[2]}}

\* _inject_wbi_mouse, with the two samples it draws
inject_wbi_mouse(params, sample1, sample2) ==
    setdefault(setdefault(setdefault(setdefault(params,
        "dm_img_list", "[]"),
        "dm_img_str", sample1),
        "dm_cover_img_str", sample2),
        "dm_img_inter", "{\"ds\":[],\"wh\":[0,0,0],\"of\":[0,0,0]}")

WEB_LOCATION == 1550101

\* The code points of the keys' characters, in rising order
KeyAlphabet == "0123456789ABCDEFGHIJKLMNOPQRSTUVWXYZ_abcdefghijklmnopqrstuvwxyz"

CodePoints ==
    [ch \in {SubSeq(KeyAlphabet, i, i) : i \in 1..Len(KeyAlphabet)} |->
        CHOOSE i \in 1..Len(KeyAlphabet) : SubSeq(KeyAlphabet, i, i) = ch]

CodePoint(ch) == CodePoints[ch]

\* a < b for two Python strings
RECURSIVE StrLess(_, _)
StrLess(a, b) ==
    IF b = "" THEN FALSE
    ELSE IF a = "" THEN TRUE
    ELSE LET ca == CodePoint(SubSeq(a, 1, 1))
             cb == CodePoint(SubSeq(b, 1, 1))
         IN  IF ca # cb THEN ca < cb
             ELSE StrLess(SubSeq(a, 2, Len(a)), SubSeq(b, 2, Len(b)))

\* dict(d.items()), without the sort
unsorted_items(d) == d

\* dict(sorted(d.items())): the keys of a dict differ, so the keys decide
sorted_items(d) ==
    LET place == [i \in DOMAIN d |->
                    1 + Cardinality({j \in DOMAIN d : StrLess(d[j][1], d[i][1])})]
    IN  [n \in DOMAIN d |-> d[CHOOSE i \in DOMAIN d : place[i] = n]]

\* urllib.parse.quote_plus keeps these
QuoteSafeText == "0123456789ABCDEFGHIJKLMNOPQRSTUVWXYZabcdefghijklmnopqrstuvwxyz_.-~"

QuoteSafe == {SubSeq(QuoteSafeText, i, i) : i \in 1..Len(QuoteSafeText)}

\* The escapes of the other characters a parameter of the model can hold
PercentEscapes ==
    (" " :> "+") @@ ("!" :> "%21") @@ ("\"" :> "%22") @@ ("&" :> "%26")
    @@ ("'" :> "%27") @@ ("(" :> "%28") @@ (")" :> "%29") @@ ("*" :> "%2A")
    @@ ("," :> "%2C") @@ ("/" :> "%2F") @@ (":" :> "%3A") @@ ("=" :> "%3D")
    @@ ("[" :> "%5B") @@ ("]" :> "%5D") @@ ("{" :> "%7B") @@ ("}" :> "%7D")

RECURSIVE quote_plus(_)
quote_plus(text) ==
    IF text = "" THEN ""
    ELSE LET ch == SubSeq(text, 1, 1)
             rest == quote_plus(SubSeq(text, 2, Len(text)))
         IN  IF ch \in QuoteSafe THEN ch \o rest ELSE PercentEscapes[ch] \o rest

\* urllib.parse.urlencode(d)
RECURSIVE urlencode(_)
urlencode(d) ==
    IF Len(d) = 0 THEN ""
    ELSE LET pair == quote_plus(d[Len(d)][1]) \o "=" \o quote_plus(d[Len(d)][2])
         IN  IF Len(d) = 1 THEN pair
             ELSE urlencode(SubSeq(d, 1, Len(d) - 1)) \o "&" \o pair

\* hashlib.md5(text).hexdigest(), kept symbolic: the digest of a text is the
\* term that names the text, so equal texts have equal digests and no two
\* texts of the model collide
md5_hexdigest(text) == "md5<" \o text \o ">"

\* Lines 477-489 of _sign_wbi_params for the key _get_wbi_mixin_key returned,
\* the clock it read and the samples _inject_wbi_mouse drew; web_location is
\* held as the text urlencode writes for the int
wbi_sign(params, include_mouse, mixin_key, time_now, sample1, sample2) ==
    LET filtered == filtered_params(params)
        moused == IF include_mouse THEN inject_wbi_mouse(filtered, sample1, sample2)
                  ELSE filtered
        located == setdefault(moused, "web_location", IntText(WEB_LOCATION))
        stamped == setitem(located, "wts", IntText(time_now))
        ordered == sorted_items(stamped)
        query == urlencode(ordered)
    IN  setitem(ordered, "w_rid", md5_hexdigest(query \o mixin_key))

-----------------------------------------------------------------------------
(* JSON.  An object is the function from the keys it holds to their values;  *)
(* a key it omits is outside its domain.  A text value is a string, None for *)
(* null; numbers are held as the text str() gives them.  JsonNull is null    *)
(* where an object is expected.                                              *)

JsonNull == [json_null |-> TRUE]

IsNull(value) == DOMAIN value = {"json_null"}

EmptyObject == [key \in {} |-> None]

\* obj.get(key), for a text value
get_text(obj, key) == IF key \in DOMAIN obj THEN obj[key] ELSE None

\* obj.get(key) or {}
get_object(obj, key) ==
    IF key \in DOMAIN obj /\ ~IsNull(obj[key]) THEN obj[key] ELSE EmptyObject

\* obj.get(key), with no default
get_object_no_default(obj, key) == IF key \in DOMAIN obj THEN obj[key] ELSE JsonNull

\* obj.get(key, {}): a null stays a null
get_object_default(obj, key) == IF key \in DOMAIN obj THEN obj[key] ELSE EmptyObject

\* obj.get(key) or []
get_list(obj, key) == IF key \in DOMAIN obj THEN obj[key] ELSE <<>>

\* a or b, for two Optional[str]
Or(a, b) == IF Truthy(a) THEN a ELSE b

\* _safe_datetime: None for a missing stamp, else the datetime of the stamp
safe_datetime(ts) == IF Truthy(ts) THEN "datetime(" \o ts \o ")" ELSE None

AttributeError == [type |-> "AttributeError",
                   text |-> "'NoneType' object has no attribute 'get'"]

-----------------------------------------------------------------------------
(* The items.  The fallback titles and the categories of the source are      *)
(* Chinese words; each is written here as an ASCII name.                     *)

\* "动态", "视频", "专栏"
CATEGORY_DYNAMIC == "dynamic"
CATEGORY_VIDEO == "video"
CATEGORY_ARTICLE == "article"

\* "动态投稿", "专栏文章", "直播动态", "图文动态", "文字动态", "动态", "视频投稿"
TITLE_ARCHIVE == "<archive post>"
TITLE_ARTICLE == "<article>"
TITLE_LIVE == "<live>"
TITLE_OPUS == "<opus>"
TITLE_WORD == "<word>"
TITLE_DYNAMIC == "<dynamic>"
TITLE_VIDEO == "<video>"

\* "".join(node.get("text") or "" for node in nodes)
RECURSIVE join_node_texts(_)
join_node_texts(nodes) ==
    IF Len(nodes) = 0 THEN ""
    ELSE join_node_texts(SubSeq(nodes, 1, Len(nodes) - 1))
            \o Or(get_text(nodes[Len(nodes)], "text"), "")

\* Lines 592-598 with the first two sources exchanged: the node texts first
opus_summary_nodes_first(opus, desc_module) ==
    LET summary_data == get_object(opus, "summary")
        joined == join_node_texts(get_list(summary_data, "rich_text_nodes"))
        first == IF Truthy(joined) THEN joined ELSE get_text(summary_data, "text")
    IN  IF Truthy(first) THEN first ELSE get_text(desc_module, "text")

\* Lines 592-598: the summary of an opus
opus_summary(opus, desc_module) ==
    LET summary_data == get_object(opus, "summary")
        text == get_text(summary_data, "text")
        joined == IF Truthy(text) THEN text
                  ELSE join_node_texts(get_list(summary_data, "rich_text_nodes"))
    IN  IF Truthy(joined) THEN joined ELSE get_text(desc_module, "text")

\* Lines 570-601: title, summary and url of a record, before the fallbacks
dynamic_branch(major, dynamic_module, desc_module) ==
    LET kind == get_text(major, "type")
    IN  IF kind = "MAJOR_TYPE_ARCHIVE" THEN
            LET archive == get_object(major, "archive")
                bvid == get_text(archive, "bvid")
            IN  [title |-> Or(get_text(archive, "title"), TITLE_ARCHIVE),
                 url |-> IF Truthy(bvid) THEN "https://www.bilibili.com/video/" \o bvid
                         ELSE None,
                 summary |-> get_text(archive, "desc")]
        ELSE IF kind = "MAJOR_TYPE_ARTICLE" THEN
            LET article == get_object(major, "article")
            IN  [title |-> Or(get_text(article, "title"), TITLE_ARTICLE),
                 url |-> get_text(article, "jump_url"),
                 summary |-> get_text(article, "desc")]
        ELSE IF kind = "MAJOR_TYPE_LIVE" THEN
            LET live == get_object(major, "live_rcmd")
            IN  [title |-> Or(get_text(live, "title"), TITLE_LIVE),
                 url |-> get_text(live, "link"),
                 summary |-> get_text(live, "content")]
        ELSE IF kind = "MAJOR_TYPE_OPUS" THEN
            LET opus == get_object(major, "opus")
                jump_url == get_text(opus, "jump_url")
            IN  [title |-> Or(get_text(opus, "title"), TITLE_OPUS),
                 url |-> IF ~Truthy(jump_url) THEN None
                         ELSE IF Len(jump_url) >= 2 /\ SubSeq(jump_url, 1, 2) = "//"
                            THEN "https:" \o jump_url
                            ELSE jump_url,
                 summary |-> opus_summary(opus, desc_module)]
        ELSE IF get_text(dynamic_module, "type") = "DYNAMIC_TYPE_WORD" THEN
            [title |-> Or(get_text(desc_module, "text"), TITLE_WORD),
             url |-> None,
             summary |-> Or(get_text(desc_module, "text"), TITLE_WORD)]
        ELSE [title |-> None, url |-> None, summary |-> None]

\* Line 561 raises for a record whose module_author is null
dynamic_raises(raw) == IsNull(get_object_default(get_object(raw, "modules"), "module_author"))

\* Line 613: f"dynamic-{mid}-{pub_ts}"
synthetic_id(mid, pub_ts) == "dynamic-" \o IntText(mid) \o "-" \o pub_ts

\* Lines 559-628: the ContentItem of one feed record
dynamic_item(mid, raw) ==
    LET given_id == Or(get_text(raw, "id_str"), get_text(raw, "id"))
        modules == get_object(raw, "modules")
        module_author == get_object_default(modules, "module_author")
        dynamic_module == get_object(modules, "module_dynamic")
        major == get_object(dynamic_module, "major")
        desc_module == get_object(dynamic_module, "desc")
        branch == dynamic_branch(major, dynamic_module, desc_module)
        title == IF Truthy(branch.title) THEN branch.title
                 ELSE Or(get_text(desc_module, "text"), Or(get_text(raw, "type"), TITLE_DYNAMIC))
        summary == IF Truthy(branch.title) THEN branch.summary
                   ELSE Or(branch.summary, get_text(desc_module, "text"))
        url_item == IF Truthy(branch.url) THEN branch.url
                    ELSE IF Truthy(given_id) THEN "https://t.bilibili.com/" \o given_id
                    ELSE "https://t.bilibili.com/"
        published == IF DOMAIN module_author # {}
                        THEN safe_datetime(get_text(module_author, "pub_ts"))
                        ELSE None
        pub_ts == IF "pub_ts" \in DOMAIN module_author THEN module_author["pub_ts"] ELSE "0"
    IN  [category |-> CATEGORY_DYNAMIC,
         item_id |-> IF Truthy(given_id) THEN given_id ELSE synthetic_id(mid, pub_ts),
         title |-> title,
         url |-> url_item,
         author |-> get_text(module_author, "name"),
         published_at |-> published,
         summary |-> summary]

\* Lines 666-685: the ContentItem of one video record; str(aid) of a missing
\* aid is "None"
video_item(raw) ==
    LET bvid == get_text(raw, "bvid")
        aid == get_text(raw, "aid")
    IN  [category |-> CATEGORY_VIDEO,
         item_id |-> IF Truthy(bvid) THEN bvid ELSE aid,
         title |-> Or(get_text(raw, "title"), TITLE_VIDEO),
         url |-> IF Truthy(bvid) THEN "https://www.bilibili.com/video/" \o bvid
                 ELSE "https://www.bilibili.com/video/av" \o aid,
         author |-> get_text(raw, "author"),
         published_at |-> safe_datetime(get_text(raw, "created")),
         summary |-> get_text(raw, "description")]

\* Lines 723-741: the ContentItem of one article record
article_item(raw) ==
    LET cvid == Or(get_text(raw, "id"), get_text(raw, "cvid"))
    IN  [category |-> CATEGORY_ARTICLE,
         item_id |-> cvid,
         title |-> Or(get_text(raw, "title"), TITLE_ARTICLE),
         url |-> "https://www.bilibili.com/read/cv" \o cvid,
         author |-> get_text(raw, "author_name"),
         published_at |-> safe_datetime(get_text(raw, "publish_time")),
         summary |-> get_text(raw, "summary")]

-----------------------------------------------------------------------------
(* Content requests.  A reply is a transport failure (ok = FALSE) or a JSON *)
(* object: its top-level code (hasCode = FALSE when the key is absent), its *)
(* message and msg, and the records of its data (none when data is absent). *)

Body(hasCode, code, message, msg, records) ==
    [ok |-> TRUE, hasCode |-> hasCode, code |-> code, message |-> message,
     msg |-> msg, records |-> records]

ContentFail ==
    [ok |-> FALSE, hasCode |-> FALSE, code |-> 0, message |-> None, msg |-> None,
     records |-> <<>>]

\* A raw record that names itself alike in each of the three feeds
Rec(id) == [id_str |-> id, bvid |-> id, id |-> id]

ContentOk == Body(TRUE, 0, "0", None, <<Rec("a")>>)

Content799 == Body(TRUE, -799, None, None, <<>>)

ContentResponses ==
    {ContentFail,
     ContentOk,
     Body(TRUE, 0, "0", None, <<Rec("c"), Rec("b"), Rec("a")>>),
     Body(FALSE, 0, None, None, <<Rec("b")>>),
     Content799,
     Body(TRUE, -352, None, "risk control", <<>>),
     Body(TRUE, -352, "error -799 upstream", None, <<>>)}

\* _SESSION.get(url, ...); response.raise_for_status(); response.json()
session_get_json(st) ==
    {IF ~resp.ok
        THEN Raise([Log(st, "content") EXCEPT !.resps = Append(@, resp)], TransportError)
        ELSE Ok([Log(st, "content") EXCEPT !.resps = Append(@, resp)], resp)
     : resp \in env.content}

\* payload.get("message") or payload.get("msg") or "unknown error"
error_message(payload) ==
    IF Truthy(payload.message) THEN payload.message
    ELSE IF Truthy(payload.msg) THEN payload.msg
    ELSE "unknown error"

\* _raise_for_code raising for the positive codes only
raise_for_positive_code(payload) ==
    IF payload.hasCode /\ payload.code > 0
        THEN RuntimeError("Bilibili API error " \o IntText(payload.code) \o ": "
                          \o error_message(payload))
        ELSE NoExc

\* The exception _raise_for_code raises for the payload, NoExc when it returns
raise_for_code(payload) ==
    IF payload.hasCode /\ payload.code # 0
        THEN RuntimeError("Bilibili API error " \o IntText(payload.code) \o ": "
                          \o error_message(payload))
        ELSE NoExc

\* seq[:n]
Take(seq, n) == SubSeq(seq, 1, IF n < Len(seq) THEN n ELSE Len(seq))

\* One ContentItem per raw record
content_items(category, mid, records) ==
    [i \in 1..Len(records) |->
        IF category = CATEGORY_DYNAMIC THEN dynamic_item(mid, records[i])
        ELSE IF category = CATEGORY_VIDEO THEN video_item(records[i])
        ELSE article_item(records[i])]

fetch_dynamic(st, mid, limit) ==
    Then(prepare_session(st),
         LAMBDA p : Then(session_get_json(p.st),
         LAMBDA r : LET exc == raise_for_code(r.val)
                    IN  IF exc # NoExc
                            THEN {Raise(r.st, exc)}
                            ELSE IF \E i \in 1..Len(Take(r.val.records, limit)) :
                                        dynamic_raises(r.val.records[i])
                                THEN {Raise(r.st, AttributeError)}
                                ELSE {Ok(r.st, content_items(CATEGORY_DYNAMIC, mid,
                                                             Take(r.val.records, limit)))}))

\* time.sleep(0.5): the clock of whole seconds moves on by one, or not
sleep_half_second(st) ==
    {Log(st, "sleep")}
    \cup (IF st.g.ticks < env.maxTicks
            THEN {[Log(st, "sleep") EXCEPT !.g.clock = @ + 1, !.g.ticks = @ + 1]}
            ELSE {})

RETRY_ATTEMPTS == 2

\* The retry without its `attempt == 0`
retries_on_every_attempt(exc, attempt) == Contains(exc.text, "-799")

\* A handler that re-raises whatever it catches
retries_never(exc, attempt) == Contains(exc.text, "-799") /\ attempt < 0

\* Line 655 / 713: the handler retries
retries_on(exc, attempt) == Contains(exc.text, "-799") /\ attempt = 0

\* `for attempt in range(2)` of fetch_videos and fetch_articles, from the
\* given attempt on; the value is the payload the loop leaves in `data`.
RECURSIVE signed_attempts(_, _, _)
signed_attempts(st, attempt, data) ==
    IF attempt >= RETRY_ATTEMPTS
        THEN {Ok(st, data)}
        ELSE Then(sign_wbi_params(st),
             LAMBDA s : Then(session_get_json([s.st EXCEPT !.signed = Append(@, s.val)]),
             LAMBDA r : LET exc == raise_for_code(r.val)
                        IN  IF exc = NoExc
                                THEN {Ok(r.st, r.val)}
                                ELSE IF Catches("RuntimeError", exc) /\ retries_on(exc, attempt)
                                    THEN Then(get_wbi_mixin_key(Log(r.st, "force_refresh"), TRUE),
                                         LAMBDA k : Bind(sleep_half_second(k.st),
                                         LAMBDA z : signed_attempts(z, attempt + 1, r.val)))
                                    ELSE {Raise(r.st, exc)}))

fetch_videos(st, mid, limit) ==
    Then(prepare_session(st),
         LAMBDA p : Then(signed_attempts(p.st, 0, None),
         LAMBDA d : {Ok(d.st, content_items(CATEGORY_VIDEO, mid, d.val.records))}))

fetch_articles(st, mid, limit) ==
    Then(prepare_session(st),
         LAMBDA p : Then(signed_attempts(p.st, 0, None),
         LAMBDA d : {Ok(d.st, content_items(CATEGORY_ARTICLE, mid,
                                            Take(d.val.records, limit)))}))

-----------------------------------------------------------------------------
(* fetch_all_for_user is a generator: nothing of it runs before the first    *)
(* next(), and it runs on only while its consumer asks for another item.     *)

\* The default limits of the three fetchers
DEFAULT_LIMIT == [fetch_dynamic |-> 20, fetch_videos |-> 10, fetch_articles |-> 10]

\* Lines 748-753: the toggles in the order they are read, and their fetchers
FETCH_ORDER ==
    <<[key |-> "dynamic", fetcher |-> "fetch_dynamic"],
      [key |-> "video", fetcher |-> "fetch_videos"],
      [key |-> "article", fetcher |-> "fetch_articles"]>>

\* A reading of the toggles that takes a missing toggle for False
toggle_default_false(fetch_options, key) ==
    IF key \in DOMAIN fetch_options THEN fetch_options[key] ELSE FALSE

\* fetch_options.get(key, True)
toggle(fetch_options, key) ==
    IF key \in DOMAIN fetch_options THEN fetch_options[key] ELSE TRUE

\* fetcher(mid), with the fetcher's default limit
call_fetcher(fetcher, st, mid) ==
    IF fetcher = "fetch_dynamic" THEN fetch_dynamic(st, mid, DEFAULT_LIMIT[fetcher])
    ELSE IF fetcher = "fetch_videos" THEN fetch_videos(st, mid, DEFAULT_LIMIT[fetcher])
    ELSE fetch_articles(st, mid, DEFAULT_LIMIT[fetcher])

\* The consumer asks for another item after it has got `got` of them
asks_again(consumer, got) == consumer.drain \/ got < consumer.n

Yields(n) == [i \in 1..n |-> "yield"]

\* The generator from step k of FETCH_ORDER on.  run is what has happened so
\* far: the items yielded and the calls made, each with what it returned.
\* A fetcher is invoked only when the consumer asks for an item that the
\* fetchers before it have not supplied.
RECURSIVE fetch_all_from(_, _, _, _, _, _)
fetch_all_from(st, mid, fetch_options, consumer, k, run) ==
    IF k > Len(FETCH_ORDER) THEN
        IF asks_again(consumer, Len(run.yielded))
            THEN {Ok(st, [run EXCEPT !.exhausted = TRUE])}
            ELSE {Ok(st, run)}
    ELSE IF ~toggle(fetch_options, FETCH_ORDER[k].key) THEN
        fetch_all_from(st, mid, fetch_options, consumer, k + 1, run)
    ELSE IF ~asks_again(consumer, Len(run.yielded)) THEN
        {Ok(st, run)}
    ELSE
        UNION {
            LET call == [fetcher |-> FETCH_ORDER[k].fetcher, exc |-> o.exc,
                         items |-> IF o.exc = NoExc THEN o.val ELSE <<>>]
                calls == Append(run.calls, call)
            IN  IF o.exc # NoExc
                    THEN {[st |-> o.st, exc |-> o.exc, val |-> [run EXCEPT !.calls = calls]]}
                    ELSE LET taken == IF consumer.drain THEN o.val
                                      ELSE Take(o.val, consumer.n - Len(run.yielded))
                             after == [o.st EXCEPT !.trace = @ \o Yields(Len(taken))]
                             next == [run EXCEPT !.calls = calls,
                                                 !.yielded = @ \o taken]
                         IN  IF Len(taken) < Len(o.val)
                                THEN {Ok(after, next)}
                                ELSE fetch_all_from(after, mid, fetch_options, consumer,
                                                    k + 1, next)
            : o \in call_fetcher(FETCH_ORDER[k].fetcher,
                                 Log(st, FETCH_ORDER[k].fetcher), mid)}

NoRun == [yielded |-> <<>>, calls |-> <<>>, exhausted |-> FALSE]

\* Lines 746-753, driven by a consumer
fetch_all_for_user(st, mid, fetch_options, consumer) ==
    fetch_all_from(st, mid, fetch_options, consumer, 1, NoRun)

-----------------------------------------------------------------------------
(* The ledger of state.py: for each account, by str(mid), and category the   *)
(* ids remembered, oldest first.                                             *)

max_ids_per_category == 50

NoLedger == [mid \in {} |-> <<>>]

NoCategories == [category \in {} |-> <<>>]

IsIn(x, seq) == \E i \in 1..Len(seq) : seq[i] = x

\* self._seen.get(str(mid), {}).get(category), an absent queue being empty
queue_of(ledger, mid, category) ==
    IF IntText(mid) \in DOMAIN ledger /\ category \in DOMAIN ledger[IntText(mid)]
        THEN ledger[IntText(mid)][category]
        ELSE <<>>

has_entries(ledger, mid) ==
    /\ IntText(mid) \in DOMAIN ledger
    /\ \E category \in DOMAIN ledger[IntText(mid)] : ledger[IntText(mid)][category] # <<>>

\* A ledger that never finds an id
is_seen_never(ledger, mid, category, item_id) == FALSE

is_seen(ledger, mid, category, item_id) == IsIn(item_id, queue_of(ledger, mid, category))

\* A queue that keeps every id
deque_append_unbounded(dq, item_id) == Append(dq, item_id)

\* dq.append(item_id) on a deque(maxlen=max_ids_per_category)
deque_append(dq, item_id) ==
    IF Len(dq) >= max_ids_per_category THEN Append(Tail(dq), item_id) ELSE Append(dq, item_id)

\* _ensure_deque makes the queue; the id is appended when it is not in it
remember(ledger, mid, category, item_id) ==
    LET dq == queue_of(ledger, mid, category)
        categories == IF IntText(mid) \in DOMAIN ledger THEN ledger[IntText(mid)]
                      ELSE NoCategories
        kept == IF IsIn(item_id, dq) THEN dq ELSE deque_append(dq, item_id)
    IN  (IntText(mid) :> ((category :> kept) @@ categories)) @@ ledger

\* remember, entry after entry.  The ledger after an entry is compared with
\* the one before it so that TLC computes it before it goes on to the next
\* entry; both branches are the same ledger.
RECURSIVE bulk_remember(_, _, _)
bulk_remember(ledger, mid, items) ==
    IF items = <<>> THEN ledger
    ELSE LET next == remember(ledger, mid, Head(items).category, Head(items).item_id)
         IN  IF next = ledger THEN bulk_remember(ledger, mid, Tail(items))
             ELSE bulk_remember(next, mid, Tail(items))

-----------------------------------------------------------------------------
(* The poller: BilibiliMonitor._iter_new_items and run_once *)

\* poller.py lines 29-33
fetch_plan ==
    <<[key |-> "dynamic", fetcher |-> "fetch_dynamic"],
      [key |-> "video", fetcher |-> "fetch_videos"],
      [key |-> "article", fetcher |-> "fetch_articles"]>>

\* A handler that lets only the rate limit pass
skips_799_only(exc) == Catches("RuntimeError", exc) /\ Contains(exc.text, "-799")

\* Lines 39-55: the handler goes on to the next category
skips(exc) ==
    /\ Catches("RuntimeError", exc)
    /\ (Contains(exc.text, "-352") \/ Contains(exc.text, "-799"))

\* Lines 34-55 from step k of the plan on.  run is what has happened so far:
\* the items collected and the calls made.
RECURSIVE collect_from(_, _, _, _, _)
collect_from(st, mid, fetch_options, k, run) ==
    IF k > Len(fetch_plan) THEN {Ok(st, run)}
    ELSE IF ~toggle(fetch_options, fetch_plan[k].key) THEN
        collect_from(st, mid, fetch_options, k + 1, run)
    ELSE
        UNION {
            LET call == [fetcher |-> fetch_plan[k].fetcher, exc |-> o.exc,
                         items |-> IF o.exc = NoExc THEN o.val ELSE <<>>]
                next == [run EXCEPT !.calls = Append(@, call), !.items = @ \o call.items]
            IN  IF o.exc = NoExc \/ skips(o.exc)
                    THEN collect_from(o.st, mid, fetch_options, k + 1, next)
                    ELSE {[st |-> o.st, exc |-> o.exc, val |-> next]}
            : o \in call_fetcher(fetch_plan[k].fetcher, Log(st, fetch_plan[k].fetcher), mid)}

Digits == "0123456789"

\* int(text) of a text of decimal digits
RECURSIVE TextNat(_)
TextNat(text) ==
    IF text = "" THEN 0
    ELSE 10 * TextNat(SubSeq(text, 1, Len(text) - 1))
         + ((CHOOSE i \in 1..10 : SubSeq(Digits, i, i) = SubSeq(text, Len(text), Len(text))) - 1)

\* i.published_at or fallback_time, as seconds; datetime.min comes first
sort_key(item) ==
    IF item.published_at = None THEN 0
    ELSE TextNat(SubSeq(item.published_at, Len("datetime(") + 1, Len(item.published_at) - 1))

\* items.sort(key=...): stable, rising
RECURSIVE sort_by_published(_)
sort_by_published(items) ==
    IF Len(items) <= 1 THEN items
    ELSE LET x == items[Len(items)]
             rest == sort_by_published(SubSeq(items, 1, Len(items) - 1))
             before == Cardinality({i \in 1..Len(rest) : sort_key(rest[i]) <= sort_key(x)})
         IN  SubSeq(rest, 1, before) \o <<x>> \o SubSeq(rest, before + 1, Len(rest))

\* Lines 69-72 with lines 78-81: each item not yet seen is notified and
\* remembered before the next one is looked at
RECURSIVE notify_new(_, _, _, _)
notify_new(ledger, mid, items, notified) ==
    IF items = <<>> THEN [ledger |-> ledger, notified |-> notified]
    ELSE IF is_seen(ledger, mid, Head(items).category, Head(items).item_id)
        THEN notify_new(ledger, mid, Tail(items), notified)
        ELSE notify_new(remember(ledger, mid, Head(items).category, Head(items).item_id),
                        mid, Tail(items), Append(notified, Head(items)))

\* notifiers.py lines 161-166: notify_all, given what each notifier's send
\* does; the value is what leaves notify_all
notify_all(notifiers) ==
    LET uncaught == {i \in 1..Len(notifiers) :
                        notifiers[i] # NoExc /\ ~Catches("Exception", notifiers[i])}
    IN  IF uncaught = {} THEN NoExc
        ELSE notifiers[CHOOSE i \in uncaught : \A j \in uncaught : i <= j]

\* Lines 76-83: one user of the cycle
process_user(st, ledger, mid, fetch_options) ==
    {LET items == sort_by_published(o.val.items)
         report == [mid |-> mid, calls |-> o.val.calls, exc |-> o.exc, items |-> <<>>,
                    primed |-> FALSE, notified |-> <<>>]
     IN  IF o.exc # NoExc THEN
            [st |-> o.st, ledger |-> ledger, report |-> report]
         ELSE IF items # <<>> /\ ~has_entries(ledger, mid) THEN
            [st |-> o.st, ledger |-> bulk_remember(ledger, mid, items),
             report |-> [report EXCEPT !.items = items, !.primed = TRUE]]
         ELSE
            LET done == notify_new(ledger, mid, items, <<>>)
            IN  IF done.notified # <<>> /\ notify_all(env.notifiers) # NoExc
                    THEN [st |-> o.st, ledger |-> ledger,
                          report |-> [report EXCEPT !.items = items,
                                                    !.exc = notify_all(env.notifiers)]]
                    ELSE [st |-> o.st, ledger |-> done.ledger,
                          report |-> [report EXCEPT !.items = items,
                                                    !.notified = done.notified]]
     : o \in collect_from(st, mid, fetch_options, 1, [items |-> <<>>, calls |-> <<>>])}

\* A handler for RuntimeError alone
run_once_except_runtime_error == "RuntimeError"

\* Line 82: `except Exception`
run_once_except_clause == "Exception"

\* Lines 75-84: the users one after the other; exc is what leaves the loop
RECURSIVE run_users(_, _, _, _)
run_users(st, ledger, users, reports) ==
    IF users = <<>>
        THEN {[st |-> st, ledger |-> ledger, reports |-> reports, exc |-> NoExc]}
    ELSE UNION {IF u.report.exc # NoExc /\ ~Catches(run_once_except_clause, u.report.exc)
                    THEN {[st |-> u.st, ledger |-> u.ledger,
                           reports |-> Append(reports, u.report), exc |-> u.report.exc]}
                    ELSE run_users(u.st, u.ledger, Tail(users), Append(reports, u.report))
                : u \in process_user(st, ledger, Head(users), env.fetch_options)}

-----------------------------------------------------------------------------
(* The state machine *)

Epoch == 1700000000

Fetchers == {"fetch_dynamic", "fetch_videos", "fetch_articles"}

NoCall == [op |-> "none", mid |-> 0, limit |-> 0, pre |-> <<>>, trace |-> <<>>,
           replies |-> NoReplies, resps |-> <<>>, signed |-> <<>>, exc |-> NoExc,
           items |-> <<>>, bundle |-> NoBundle]

\* The state after import and before BilibiliMonitor.__init__, in a world E
InitIn(E) ==
    /\ env = E
    /\ cookies = seed_basic_cookies
    /\ BUVID_FETCHED = FALSE
    /\ BUVID_PAIR = <<>>
    /\ BILI_TICKET = None
    /\ BILI_TICKET_EXPIRES_AT = 0
    /\ WBI_MIXIN_KEY = None
    /\ WBI_LAST_FETCHED = 0
    /\ now = Epoch
    /\ ticks = 0
    /\ phase = "init"
    /\ seen = NoLedger
    /\ cycles = 0
    /\ last = NoCall

\* BilibiliMonitor.__init__: State(config.state_file) loads the ledger, then
\* bilibili.apply_auth_cookies(config.auth_cookies)
ApplyAuthCookies ==
    /\ phase = "init"
    /\ seen' \in env.state_file
    /\ UNCHANGED cycles
    /\ \E bundle \in env.bundles :
        /\ cookies' = apply_auth_cookies(cookies, bundle)
        /\ last' = [NoCall EXCEPT !.op = "apply_auth_cookies", !.pre = Globals,
                                  !.bundle = bundle]
    /\ phase' = "run"
    /\ UNCHANGED <<BUVID_FETCHED, BUVID_PAIR, BILI_TICKET, BILI_TICKET_EXPIRES_AT,
                   WBI_MIXIN_KEY, WBI_LAST_FETCHED, now, ticks, env>>

\* Every bundle: each field None, empty or set
AuthBundles == [AuthFields -> {None, ""}] \cup {BundleOf(S, blank) : S \in SUBSET AuthFields, blank \in {None, ""}}

\* apply_auth_cookies(bundle) called once more, on the session as the
\* fetchers have left it; the run ends with it
ApplyAuthCookiesLate ==
    /\ phase = "run"
    /\ \E bundle \in AuthBundles :
        /\ cookies' = apply_auth_cookies(cookies, bundle)
        /\ last' = [NoCall EXCEPT !.op = "apply_auth_cookies", !.pre = Globals,
                                  !.bundle = bundle]
    /\ phase' = "applied"
    /\ UNCHANGED <<BUVID_FETCHED, BUVID_PAIR, BILI_TICKET, BILI_TICKET_EXPIRES_AT,
                   WBI_MIXIN_KEY, WBI_LAST_FETCHED, now, ticks, env, seen, cycles>>

\* The globals after an operation, and the record of the operation
Finish(op, mid, limit, o) ==
    /\ cookies' = o.st.g.cookies
    /\ BUVID_FETCHED' = o.st.g.BUVID_FETCHED
    /\ BUVID_PAIR' = o.st.g.BUVID_PAIR
    /\ BILI_TICKET' = o.st.g.BILI_TICKET
    /\ BILI_TICKET_EXPIRES_AT' = o.st.g.BILI_TICKET_EXPIRES_AT
    /\ WBI_MIXIN_KEY' = o.st.g.WBI_MIXIN_KEY
    /\ WBI_LAST_FETCHED' = o.st.g.WBI_LAST_FETCHED
    /\ now' = o.st.g.clock
    /\ ticks' = o.st.g.ticks
    /\ last' = [op |-> op, mid |-> mid, limit |-> limit, pre |-> Globals,
                trace |-> o.st.trace, replies |-> o.st.replies, resps |-> o.st.resps,
                signed |-> o.st.signed,
                exc |-> o.exc, items |-> IF o.exc = NoExc THEN o.val ELSE <<>>]
    /\ UNCHANGED <<phase, env, seen, cycles>>

FetchDynamic ==
    /\ phase = "run"
    /\ \E mid \in Mids, limit \in Limits :
        \E o \in fetch_dynamic(Start, mid, limit) : Finish("fetch_dynamic", mid, limit, o)

FetchVideos ==
    /\ phase = "run"
    /\ \E mid \in Mids, limit \in Limits :
        \E o \in fetch_videos(Start, mid, limit) : Finish("fetch_videos", mid, limit, o)

FetchArticles ==
    /\ phase = "run"
    /\ \E mid \in Mids, limit \in Limits :
        \E o \in fetch_articles(Start, mid, limit) : Finish("fetch_articles", mid, limit, o)

\* The consumers of the generator: one that drains it, and those that stop
\* after n items
MaxNext == 2

Consumers == {[drain |-> TRUE, n |-> 0]} \cup {[drain |-> FALSE, n |-> n] : n \in 0..MaxNext}

\* fetch_all_for_user(mid, fetch_options), consumed by one of the consumers
FetchAllForUser ==
    /\ phase = "run"
    /\ \E mid \in Mids, consumer \in Consumers :
        \E o \in fetch_all_for_user(Start, mid, env.fetch_options, consumer) :
            /\ cookies' = o.st.g.cookies
            /\ BUVID_FETCHED' = o.st.g.BUVID_FETCHED
            /\ BUVID_PAIR' = o.st.g.BUVID_PAIR
            /\ BILI_TICKET' = o.st.g.BILI_TICKET
            /\ BILI_TICKET_EXPIRES_AT' = o.st.g.BILI_TICKET_EXPIRES_AT
            /\ WBI_MIXIN_KEY' = o.st.g.WBI_MIXIN_KEY
            /\ WBI_LAST_FETCHED' = o.st.g.WBI_LAST_FETCHED
            /\ now' = o.st.g.clock
            /\ ticks' = o.st.g.ticks
            /\ last' = [op |-> "fetch_all_for_user", mid |-> mid,
                        fetch_options |-> env.fetch_options, consumer |-> consumer,
                        pre |-> Globals, trace |-> o.st.trace, resps |-> o.st.resps,
                        exc |-> o.exc, items |-> o.val.yielded, calls |-> o.val.calls,
                        exhausted |-> o.val.exhausted]
            /\ UNCHANGED <<phase, env, seen, cycles>>

\* How many polling cycles a run may hold
MaxCycles == 1

\* The entries of a ledger: (account, category, item id)
EntriesOf(ledger) ==
    UNION {UNION {{[mid |-> m, category |-> c, item_id |-> ledger[m][c][i]]
                   : i \in 1..Len(ledger[m][c])}
                  : c \in DOMAIN ledger[m]}
           : m \in DOMAIN ledger}

\* What a cycle recorded: the items it primed the ledger with or notified
RecordedIn(reports) ==
    UNION {LET items == IF reports[u].primed THEN reports[u].items
                        ELSE reports[u].notified
           IN  {[mid |-> IntText(reports[u].mid), category |-> items[i].category,
                 item_id |-> items[i].item_id] : i \in 1..Len(items)}
           : u \in 1..Len(reports)}

\* The fetchers that returned a list in a cycle, by account
FetchedIn(reports) ==
    UNION {{[mid |-> reports[u].mid, fetcher |-> reports[u].calls[i].fetcher]
            : i \in {j \in 1..Len(reports[u].calls) : reports[u].calls[j].exc = NoExc}}
           : u \in 1..Len(reports)}

\* BilibiliMonitor.run_once: one polling cycle.  `loaded` is the ledger the
\* process began with, `recorded` and `fetched` are what the process has
\* recorded and fetched before this cycle.
RunOnce ==
    /\ phase = "run"
    /\ cycles < env.maxCycles
    /\ cycles' = cycles + 1
    /\ \E c \in run_users(Start, seen, env.users, <<>>) :
        /\ cookies' = c.st.g.cookies
        /\ BUVID_FETCHED' = c.st.g.BUVID_FETCHED
        /\ BUVID_PAIR' = c.st.g.BUVID_PAIR
        /\ BILI_TICKET' = c.st.g.BILI_TICKET
        /\ BILI_TICKET_EXPIRES_AT' = c.st.g.BILI_TICKET_EXPIRES_AT
        /\ WBI_MIXIN_KEY' = c.st.g.WBI_MIXIN_KEY
        /\ WBI_LAST_FETCHED' = c.st.g.WBI_LAST_FETCHED
        /\ now' = c.st.g.clock
        /\ ticks' = c.st.g.ticks
        /\ seen' = c.ledger
        /\ last' = [op |-> "run_once", pre |-> Globals, pre_seen |-> seen,
                    fetch_options |-> env.fetch_options, trace |-> c.st.trace,
                    resps |-> c.st.resps, reports |-> c.reports, saved |-> c.ledger,
                    users |-> env.users, exc |-> c.exc,
                    saves |-> IF c.exc = NoExc THEN 1 ELSE 0,
                    loaded |-> IF last.op = "run_once" THEN last.loaded ELSE seen,
                    recorded |-> IF last.op = "run_once"
                                    THEN last.recorded \cup RecordedIn(last.reports)
                                    ELSE EntriesOf(seen),
                    fetched |-> IF last.op = "run_once"
                                    THEN last.fetched \cup FetchedIn(last.reports)
                                    ELSE {}]
        /\ UNCHANGED <<phase, env>>

\* Time passes between two operations
Tick ==
    /\ phase = "run"
    /\ ticks < env.maxTicks
    /\ \E d \in env.steps : now' = now + d
    /\ ticks' = ticks + 1
    /\ last' = [NoCall EXCEPT !.op = "tick"]
    /\ UNCHANGED <<cookies, BUVID_FETCHED, BUVID_PAIR, BILI_TICKET,
                   BILI_TICKET_EXPIRES_AT, WBI_MIXIN_KEY, WBI_LAST_FETCHED, phase, env,
                   seen, cycles>>

Next ==
    \/ ApplyAuthCookies
    \/ FetchDynamic
    \/ FetchVideos
    \/ FetchArticles
    \/ Tick

-----------------------------------------------------------------------------
(* The worlds the machine is checked in.  A world names the auth bundles    *)
(* the configuration may hold, the replies each endpoint may give, the      *)
(* identifiers the fallback may draw and the steps the clock may take.      *)
(* Each explores one part of the protocol in full and keeps the replies of  *)
(* the other endpoints to a few.                                            *)

BothBuvids == BundleOf({"buvid3", "buvid4"}, None)

LocalA == <<"loc3a", "loc4a">>

\* Every endpoint answers or fails; the clock takes every step of interest.
WorldAll ==
    [bundles |-> {NoBundle, BothBuvids},
     spi |-> {SpiOk, [ok |-> FALSE, b_3 |-> None, b_4 |-> None]},
     activate |-> {ActivateOk},
     local |-> {LocalA},
     ticket |-> {TicketA, TicketFail},
     nav |-> {NavA, NavFail},
     content |-> {ContentOk, Content799, ContentFail},
     state_file |-> {NoLedger},
     steps |-> {1, 3600, 259139},
     maxTicks |-> MaxTicksAll]

\* The device flow in full
WorldDevice ==
    [bundles |-> ConfigBundles,
     spi |-> SpiResponses,
     activate |-> ActivateResponses,
     local |-> LocalPairs,
     ticket |-> {TicketA, TicketFail},
     nav |-> {NavA, NavFail},
     content |-> {ContentOk, ContentFail},
     state_file |-> {NoLedger},
     steps |-> {1},
     maxTicks |-> MaxTicksDevice]

\* The ticket flow in full: the clock steps by a second and by one second
\* less than a ticket's validity window
WorldTicket ==
    [bundles |-> {BothBuvids},
     spi |-> {SpiOk},
     activate |-> {ActivateOk},
     local |-> {LocalA},
     ticket |-> TicketResponses,
     nav |-> {NavA, NavFail},
     content |-> {ContentOk, Content799, ContentFail},
     state_file |-> {NoLedger},
     steps |-> {1, 259139},
     maxTicks |-> MaxTicks]

\* The signing key in full: the clock steps by a second and by the key's lifetime
WorldKey ==
    [bundles |-> {BothBuvids},
     spi |-> {SpiOk},
     activate |-> {ActivateOk},
     local |-> {LocalA},
     ticket |-> {TicketA},
     nav |-> NavResponses,
     content |-> {ContentOk, Content799, ContentFail},
     state_file |-> {NoLedger},
     steps |-> {1, 3600},
     maxTicks |-> MaxTicks]

\* The content requests and the retry in full
WorldContent ==
    [bundles |-> {NoBundle},
     spi |-> {SpiOk},
     activate |-> {ActivateOk},
     local |-> {LocalA},
     ticket |-> {TicketA},
     nav |-> {NavA, NavB, NavFail},
     content |-> ContentResponses,
     state_file |-> {NoLedger},
     steps |-> {1},
     maxTicks |-> MaxTicksContent]

Init == InitIn(WorldAll)

Spec == Init /\ [][Next]_vars

SpecDevice == InitIn(WorldDevice) /\ [][Next]_vars

SpecTicket == InitIn(WorldTicket) /\ [][Next]_vars

SpecKey == InitIn(WorldKey) /\ [][Next]_vars

SpecContent == InitIn(WorldContent) /\ [][Next]_vars

-----------------------------------------------------------------------------
(* _sign_wbi_params on its own: two calls, one after the other, on the same  *)
(* key-value pairs written in two orders.                                    *)

Absent == "<absent>"

\* The keys a caller may pass, in the order the first call writes them, and
\* what each may hold
SignKeys == <<"mid", "keyword", "dm_img_str", "dm_cover_img_str">>

SignValues ==
    [mid |-> {Absent, "7"},
     keyword |-> {Absent, None, "a!'b()c*d", "x y"},
     dm_img_str |-> {Absent, "AB"},
     dm_cover_img_str |-> {Absent, "K*A"}]

SignChoices == {m \in [DOMAIN SignValues -> UNION {SignValues[k] : k \in DOMAIN SignValues}] :
                    \A k \in DOMAIN SignValues : m[k] \in SignValues[k]}

\* The dict a caller builds by writing the chosen keys in the order of SignKeys
DictOf(choice) ==
    LET present == SelectSeq(SignKeys, LAMBDA k : choice[k] # Absent)
    IN  [i \in DOMAIN present |-> <<present[i], choice[present[i]]>>]

\* The same pairs in every insertion order
Reorderings(d) ==
    {[i \in DOMAIN d |-> d[perm[i]]] :
        perm \in {f \in [DOMAIN d -> DOMAIN d] : \A i, j \in DOMAIN d : f[i] = f[j] => i = j}}

\* The samples random.sample draws in the model
ModelSamples == {"AB", "KA"}

\* One call of _sign_wbi_params(params, include_mouse=...) from state st
sign_call(st, params, include_mouse) ==
    Bind(sign_wbi_params(st),
         LAMBDA o : IF o.exc # NoExc THEN {o}
                    ELSE {Ok(o.st, wbi_sign(params, include_mouse, o.val.mixin_key,
                                            o.st.g.clock, sample1, sample2))
                          : <<sample1, sample2>> \in ModelSamples \X ModelSamples})

WorldSigning ==
    [bundles |-> {NoBundle},
     spi |-> {SpiOk},
     activate |-> {ActivateOk},
     local |-> {LocalA},
     ticket |-> {TicketA},
     nav |-> {NavA, NavB, NavFail},
     content |-> {ContentOk},
     state_file |-> {NoLedger},
     steps |-> {1},
     maxTicks |-> MaxTicksContent]

\* The arguments of the two calls are drawn at the start: the pairs, the
\* order the second caller writes them in, and include_mouse
InitSigning ==
    /\ env = WorldSigning
    /\ cookies = seed_basic_cookies
    /\ BUVID_FETCHED = FALSE
    /\ BUVID_PAIR = <<>>
    /\ BILI_TICKET = None
    /\ BILI_TICKET_EXPIRES_AT = 0
    /\ WBI_MIXIN_KEY = None
    /\ WBI_LAST_FETCHED = 0
    /\ now = Epoch
    /\ ticks = 0
    /\ phase = "run"
    /\ seen = NoLedger
    /\ cycles = 0
    /\ \E choice \in SignChoices, include_mouse \in BOOLEAN :
        \E reordered \in Reorderings(DictOf(choice)) :
            last = [op |-> "sign_arguments", params |-> DictOf(choice),
                    reordered |-> reordered, include_mouse |-> include_mouse]

SignWbiParams ==
    /\ last.op = "sign_arguments"
    /\ \E first \in sign_call(Start, last.params, last.include_mouse) :
        \E second \in (IF first.exc = NoExc
                            THEN sign_call(first.st, last.reordered, last.include_mouse)
                            ELSE {first}) :
            /\ WBI_MIXIN_KEY' = second.st.g.WBI_MIXIN_KEY
            /\ WBI_LAST_FETCHED' = second.st.g.WBI_LAST_FETCHED
            /\ last' = [op |-> "sign_wbi_params", pre |-> Globals,
                        params |-> last.params, reordered |-> last.reordered,
                        include_mouse |-> last.include_mouse,
                        trace |-> second.st.trace,
                        exc |-> second.exc,
                        outputs |-> IF second.exc = NoExc
                                        THEN <<first.val, second.val>> ELSE <<>>]
            /\ UNCHANGED <<cookies, BUVID_FETCHED, BUVID_PAIR, BILI_TICKET,
                           BILI_TICKET_EXPIRES_AT, now, ticks, phase, env, seen,
                           cycles>>

NextSigning == SignWbiParams

SpecSigning == InitSigning /\ [][NextSigning]_vars

-----------------------------------------------------------------------------
(* The records a content reply may hold.  Optional(key, values) is the part  *)
(* of an object that holds the key, or omits it; Both joins two parts.       *)

Optional(key, values) == {EmptyObject} \cup {key :> v : v \in values}

Both(A, B) == {a @@ b : a \in A, b \in B}

AuthorObjects == Both(Optional("name", {"up"}), Optional("pub_ts", {"1700000001"}))

HelloWorld == <<[text |-> "Hello"], [text |-> " world"]>>

SummaryObjects ==
    {EmptyObject,
     [text |-> "opus summary"],
     [rich_text_nodes |-> HelloWorld],
     ("text" :> "") @@ ("rich_text_nodes" :> HelloWorld),
     ("text" :> "opus summary") @@ ("rich_text_nodes" :> HelloWorld),
     [rich_text_nodes |-> <<EmptyObject, [text |-> None]>>],
     [rich_text_nodes |-> <<>>]}

OpusObjects ==
    Both(Both(Optional("title", {"opus title"}),
              Optional("jump_url", {"//www.bilibili.com/opus/1", "https://b23.tv/2"})),
         Optional("summary", SummaryObjects))

ArchiveObjects ==
    Both(Both(Optional("title", {"video title"}), Optional("bvid", {"BV1"})),
         Optional("desc", {"video desc"}))

ArticleObjects ==
    Both(Both(Optional("title", {"article title"}), Optional("jump_url", {"https://b23.tv/3"})),
         Optional("desc", {"article desc"}))

LiveObjects ==
    Both(Both(Optional("title", {"live title"}), Optional("link", {"https://b23.tv/4"})),
         Optional("content", {"live content"}))

MajorObjects ==
    {EmptyObject, [type |-> "MAJOR_TYPE_NONE"]}
    \cup Both({[type |-> "MAJOR_TYPE_ARCHIVE"]}, Optional("archive", ArchiveObjects))
    \cup Both({[type |-> "MAJOR_TYPE_ARTICLE"]}, Optional("article", ArticleObjects))
    \cup Both({[type |-> "MAJOR_TYPE_LIVE"]}, Optional("live_rcmd", LiveObjects))
    \cup Both({[type |-> "MAJOR_TYPE_OPUS"]}, Optional("opus", OpusObjects))

DescObjects == Optional("text", {"desc text"})

DynamicObjects ==
    Both(Both(Optional("type", {"DYNAMIC_TYPE_WORD"}), Optional("desc", DescObjects)),
         Optional("major", MajorObjects))

IdParts == Both(Optional("id_str", {"", "111"}), Optional("id", {"222"}))

\* A few module_dynamic objects, to go with every choice of ids and author
SomeDynamicObjects ==
    {d \in DynamicObjects :
        /\ "desc" \in DOMAIN d => "text" \in DOMAIN d["desc"]
        /\ "major" \in DOMAIN d => d["major"] = [type |-> "MAJOR_TYPE_OPUS"]}

\* The feed records of the model: every choice of ids, record type and
\* author with a few module_dynamic objects, and every module_dynamic object
\* with and without an id
FeedRecords ==
    Both(Both(IdParts, Optional("type", {"DYNAMIC_TYPE_DRAW"})),
         Optional("modules", Both(Optional("module_author", AuthorObjects),
                                  Optional("module_dynamic", SomeDynamicObjects))))
    \cup Both(Optional("id_str", {"111"}),
              Optional("modules", Both(Optional("module_author", {[pub_ts |-> "1700000001"]}),
                                       Optional("module_dynamic", DynamicObjects))))

\* A record whose module_author is null
NullAuthorRecord == [id_str |-> "111", modules |-> [module_author |-> JsonNull]]

VideoRecords == Both(Optional("bvid", {"", "BV1"}), Optional("aid", {"", "170001"}))

ArticleRecords == Both(Optional("id", {"", "9"}), Optional("cvid", {"", "8"}))

\* The replies of the items world: one record each, and one reply with more
\* records than the limit
ItemBodies ==
    {Body(TRUE, 0, "0", None, <<raw>>) :
        raw \in FeedRecords \cup {NullAuthorRecord} \cup VideoRecords \cup ArticleRecords}
    \cup {Body(TRUE, 0, "0", None, <<EmptyObject, Rec("b"), Rec("c")>>)}

\* Normalisation in full: the reply of the content endpoint is drawn at the
\* start and stays what it is
WorldItems ==
    [bundles |-> {NoBundle},
     spi |-> {SpiOk},
     activate |-> {ActivateOk},
     local |-> {LocalA},
     ticket |-> {TicketA},
     nav |-> {NavA},
     content |-> {ContentOk},
     state_file |-> {NoLedger},
     steps |-> {1},
     maxTicks |-> MaxTicksContent]

-----------------------------------------------------------------------------
(* The 128-bit hash of the device fingerprint.  A 64-bit value is its eight
   bytes, least significant first; Python's unbounded integers reduced
   "% modulus" are these words. *)

WORD_BYTES == 8

RECURSIVE XorBits(_, _, _)
XorBits(a, b, n) ==
    IF n = 0 THEN 0
    ELSE ((a + b) % 2) + 2 * XorBits(a \div 2, b \div 2, n - 1)

XorTable == [a \in 0..255 |-> [b \in 0..255 |-> XorBits(a, b, 8)]]

\* x ^ y
Xor64(x, y) == [i \in 1..WORD_BYTES |-> XorTable[x[i]][y[i]]]

\* x | y
Or64(x, y) == [i \in 1..WORD_BYTES |-> (x[i] + y[i] + XorTable[x[i]][y[i]]) \div 2]

RECURSIVE Carried(_, _, _)
Carried(columns, i, carry) ==
    IF i > WORD_BYTES THEN <<>>
    ELSE <<(columns[i] + carry) % 256>>
            \o Carried(columns, i + 1, (columns[i] + carry) \div 256)

\* (x + y) % modulus
Add64(x, y) == Carried([i \in 1..WORD_BYTES |-> x[i] + y[i]], 1, 0)

RECURSIVE Column(_, _, _, _)
Column(x, y, k, i) ==
    IF i > k THEN 0 ELSE x[i] * y[k + 1 - i] + Column(x, y, k, i + 1)

\* (x * y) % modulus
Mul64(x, y) == Carried([k \in 1..WORD_BYTES |-> Column(x, y, k, 1)], 1, 0)

RECURSIVE Pow2(_)
Pow2(n) == IF n = 0 THEN 1 ELSE 2 * Pow2(n - 1)

ByteAt(x, i) == IF i >= 1 /\ i <= WORD_BYTES THEN x[i] ELSE 0

\* (x << bits) & ((1 << 64) - 1)
ShiftLeft64(x, bits) ==
    [i \in 1..WORD_BYTES |->
        ((ByteAt(x, i - (bits \div 8)) * Pow2(bits % 8)) % 256)
            + (ByteAt(x, i - (bits \div 8) - 1) \div Pow2(8 - (bits % 8)))]

\* x >> bits
ShiftRight64(x, bits) ==
    [i \in 1..WORD_BYTES |->
        (ByteAt(x, i + (bits \div 8)) \div Pow2(bits % 8))
            + ((ByteAt(x, i + (bits \div 8) + 1) % Pow2(bits % 8))
                    * Pow2(8 - (bits % 8)))]

RECURSIVE BytesOf(_, _)
BytesOf(n, count) ==
    IF count = 0 THEN <<>> ELSE <<n % 256>> \o BytesOf(n \div 256, count - 1)

\* A small non-negative integer as a word
WordOf(n) == BytesOf(n, WORD_BYTES)

rotate_left(value, bits) ==
    Or64(ShiftLeft64(value, bits), ShiftRight64(value, 64 - bits))

c1 == <<213, 83, 66, 17, 145, 123, 195, 135>>
c2 == <<127, 147, 69, 39, 67, 173, 245, 76>>
c3 == <<41, 231, 220, 82, 0, 0, 0, 0>>
c4 == <<181, 90, 73, 56, 0, 0, 0, 0>>
r1 == 27
r2 == 31
r3 == 33

FMIX_A == <<205, 140, 85, 237, 215, 175, 81, 255>>
FMIX_B == <<83, 236, 133, 26, 254, 185, 206, 196>>

xor_shifted(value) == Xor64(value, ShiftRight64(value, 33))

fmix64(value) ==
    xor_shifted(Mul64(xor_shifted(Mul64(xor_shifted(value), FMIX_A)), FMIX_B))

\* A 16-byte chunk: struct.unpack("<q") of each half, the sign folded away by
\* the "% modulus" of the product
block_h1(chunk, h1, h2) ==
    LET k1 == SubSeq(chunk, 1, 8)
        mixed == Xor64(h1, Mul64(rotate_left(Mul64(k1, c1), r2), c2))
    IN  Add64(Mul64(Add64(rotate_left(mixed, r1), h2), WordOf(5)), c3)

block_h2(chunk, h1new, h2) ==
    LET k2 == SubSeq(chunk, 9, 16)
        mixed == Xor64(h2, Mul64(rotate_left(Mul64(k2, c2), r3), c1))
    IN  Add64(Mul64(Add64(rotate_left(mixed, r2), h1new), WordOf(5)), c4)

\* The tail's second word without its seventh byte
tail_k2_short(chunk) ==
    [i \in 1..WORD_BYTES |->
        IF i <= 6 /\ Len(chunk) >= 8 + i THEN chunk[8 + i] ELSE 0]

\* k2 of a chunk of 1..15 bytes: tail[8] .. tail[14]
tail_k2(chunk) ==
    [i \in 1..WORD_BYTES |->
        IF i <= 7 /\ Len(chunk) >= 8 + i THEN chunk[8 + i] ELSE 0]

\* k1 of a chunk of 1..15 bytes: tail[0] .. tail[7]
tail_k1(chunk) ==
    [i \in 1..WORD_BYTES |-> IF Len(chunk) >= i THEN chunk[i] ELSE 0]

tail_h2(chunk, h2) ==
    IF Len(chunk) >= 9
        THEN Xor64(h2, Mul64(rotate_left(Mul64(tail_k2(chunk), c2), r3), c1))
        ELSE h2

tail_h1(chunk, h1) ==
    Xor64(h1, Mul64(rotate_left(Mul64(tail_k1(chunk), c1), r2), c2))

\* The empty chunk: the two words of the result, h1 then h2, which is
\* (h2 << 64) | h1 least significant byte first
finish(processed, h1, h2) ==
    LET a1 == Xor64(h1, WordOf(processed))
        a2 == Xor64(h2, WordOf(processed))
        b1 == Add64(a1, a2)
        b2 == Add64(a2, b1)
        d1 == fmix64(b1)
        d2 == fmix64(b2)
        e1 == Add64(d1, d2)
        e2 == Add64(d2, e1)
    IN  e1 \o e2

RECURSIVE murmur_loop(_, _, _, _)
murmur_loop(data, processed, h1, h2) ==
    LET chunk == SubSeq(data, processed + 1,
                        IF processed + 16 <= Len(data) THEN processed + 16 ELSE Len(data))
    IN  IF Len(chunk) = 16
            THEN LET h1new == block_h1(chunk, h1, h2)
                 IN  murmur_loop(data, processed + 16, h1new, block_h2(chunk, h1new, h2))
        ELSE IF Len(chunk) = 0
            THEN finish(processed, h1, h2)
        ELSE murmur_loop(data, processed + Len(chunk),
                         tail_h1(chunk, h1), tail_h2(chunk, h2))

murmur3_x64_128(data, seed) == murmur_loop(data, 0, WordOf(seed), WordOf(seed))

\* Inputs: lengths up to MaxBlocks whole chunks and a tail
MaxBlocks == 1

Lengths == 0..(16 * MaxBlocks + 15)

Fillings == {"text", "high"}

Filled(kind, n) ==
    [i \in 1..n |-> IF kind = "text" THEN 48 + (i % 10) ELSE 255 - (i % 3)]

Seeds == {0, 31}

Deltas == {129}

Positions(n) == {p \in {1, 9, 16, 17, n} : p >= 1 /\ p <= n}

\* data with the byte at pos changed
Changed(data, pos, delta) ==
    IF pos = 0 THEN data ELSE [data EXCEPT ![pos] = (@ + delta) % 256]

InitMurmur ==
    /\ env = WorldSigning
    /\ cookies = seed_basic_cookies
    /\ BUVID_FETCHED = FALSE
    /\ BUVID_PAIR = <<>>
    /\ BILI_TICKET = None
    /\ BILI_TICKET_EXPIRES_AT = 0
    /\ WBI_MIXIN_KEY = None
    /\ WBI_LAST_FETCHED = 0
    /\ now = Epoch
    /\ ticks = 0
    /\ phase = "run"
    /\ seen = NoLedger
    /\ cycles = 0
    /\ \E n \in Lengths, kind \in Fillings, seed \in Seeds, delta \in Deltas :
        \E pos \in Positions(n) \cup {0} :
            last = [op |-> "murmur_arguments", data |-> Filled(kind, n),
                    seed |-> seed, pos |-> pos,
                    other |-> Changed(Filled(kind, n), pos, delta)]

\* _murmur3_x64_128 called on data and on the other input
Murmur3 ==
    /\ last.op = "murmur_arguments"
    /\ last' = [op |-> "murmur3_x64_128", data |-> last.data, seed |-> last.seed,
                pos |-> last.pos, other |-> last.other,
                out |-> murmur3_x64_128(last.data, last.seed),
                out_other |-> murmur3_x64_128(last.other, last.seed)]
    /\ UNCHANGED <<cookies, BUVID_FETCHED, BUVID_PAIR, BILI_TICKET,
                   BILI_TICKET_EXPIRES_AT, WBI_MIXIN_KEY, WBI_LAST_FETCHED, now,
                   ticks, phase, env, seen, cycles>>

NextMurmur == Murmur3

SpecMurmur == InitMurmur /\ [][NextMurmur]_vars

-----------------------------------------------------------------------------
(* Two invocations at once.  The code has no lock, and a thread may be
   suspended between any two statements: each of the three check-then-refresh
   sequences is run by two threads, one statement at a time, in any
   interleaving.  last.pc is where each thread stands, last.sent the requests
   it has sent to the sequence's endpoint, last.after whether the other
   thread had finished when it made its check, last.stored whether it has
   stored what it fetched, last.local its local variables. *)

Threads == {1, 2}

Other(t) == 3 - t

NoLocals == [text |-> None, stamp |-> 0, pair |-> <<>>]

\* The globals take the values of g
SetGlobals(g) ==
    /\ cookies' = g.cookies
    /\ BUVID_FETCHED' = g.BUVID_FETCHED
    /\ BUVID_PAIR' = g.BUVID_PAIR
    /\ BILI_TICKET' = g.BILI_TICKET
    /\ BILI_TICKET_EXPIRES_AT' = g.BILI_TICKET_EXPIRES_AT
    /\ WBI_MIXIN_KEY' = g.WBI_MIXIN_KEY
    /\ WBI_LAST_FETCHED' = g.WBI_LAST_FETCHED
    /\ UNCHANGED <<now, ticks, phase, env, seen, cycles>>

\* Two threads enter one of the sequences
Spawn ==
    /\ phase = "run"
    /\ phase' = "threads"
    /\ \E resource \in {"ticket", "key", "device"} :
        last' = [op |-> "threads", resource |-> resource, pre |-> Globals,
                 pc |-> <<"check", "check">>, sent |-> <<0, 0>>,
                 after |-> <<FALSE, FALSE>>, stored |-> <<FALSE, FALSE>>,
                 local |-> <<NoLocals, NoLocals>>]
    /\ UNCHANGED <<cookies, BUVID_FETCHED, BUVID_PAIR, BILI_TICKET,
                   BILI_TICKET_EXPIRES_AT, WBI_MIXIN_KEY, WBI_LAST_FETCHED, now, ticks,
                   env, seen, cycles>>

\* The check of a sequence, leading to `go` when a refresh is due
Checked(t, due, go, skip) ==
    [last EXCEPT !.pc[t] = IF due THEN go ELSE skip,
                 !.after[t] = (last.pc[Other(t)] = "done")]

\* _ensure_bili_ticket, a statement at a time
TicketStep ==
    /\ phase = "threads"
    /\ last.resource = "ticket"
    /\ \E t \in Threads :
        \/ /\ last.pc[t] = "check"                                  \* lines 402-404
           /\ SetGlobals(Globals)
           /\ last' = Checked(t, ~ticket_is_fresh(Start), "request", "done")
        \/ /\ last.pc[t] = "request"                                \* lines 406-422, 431
           /\ SetGlobals(Globals)
           /\ \E resp \in env.ticket :
                last' = IF resp.ok /\ Truthy(resp.ticket)
                            THEN [last EXCEPT !.pc[t] = "store_ticket", !.sent[t] = @ + 1,
                                              !.local[t] = [NoLocals EXCEPT
                                                                !.text = resp.ticket,
                                                                !.stamp = now]]
                            ELSE [last EXCEPT !.pc[t] = "done", !.sent[t] = @ + 1]
        \/ /\ last.pc[t] = "store_ticket"                           \* line 423
           /\ SetGlobals([Globals EXCEPT !.BILI_TICKET = last.local[t].text])
           /\ last' = [last EXCEPT !.pc[t] = "store_expiry"]
        \/ /\ last.pc[t] = "store_expiry"                           \* line 424
           /\ SetGlobals([Globals EXCEPT !.BILI_TICKET_EXPIRES_AT =
                                            last.local[t].stamp + TICKET_LIFETIME])
           /\ last' = [last EXCEPT !.pc[t] = "set_ticket"]
        \/ /\ last.pc[t] = "set_ticket"                             \* line 425
           /\ SetGlobals([Globals EXCEPT !.cookies =
                                set_cookie(@, "bili_ticket", last.local[t].text)])
           /\ last' = [last EXCEPT !.pc[t] = "set_expires"]
        \/ /\ last.pc[t] = "set_expires"                            \* lines 426-430
           /\ SetGlobals([Globals EXCEPT !.cookies =
                                set_cookie(@, "bili_ticket_expires",
                                           IntText(BILI_TICKET_EXPIRES_AT))])
           /\ last' = [last EXCEPT !.pc[t] = "done", !.stored[t] = TRUE]

\* _get_wbi_mixin_key(), a statement at a time
KeyStep ==
    /\ phase = "threads"
    /\ last.resource = "key"
    /\ \E t \in Threads :
        \/ /\ last.pc[t] = "check"                                  \* lines 460-461
           /\ SetGlobals(Globals)
           /\ last' = [Checked(t, wbi_needs_refresh(Start, FALSE), "request", "return")
                        EXCEPT !.local[t] = [NoLocals EXCEPT !.stamp = now]]
        \/ /\ last.pc[t] = "request"                                \* line 462, the call
           /\ SetGlobals(Globals)
           /\ \E o \in compute_wbi_mixin_key(Start) :
                last' = IF o.exc = NoExc
                            THEN [last EXCEPT !.pc[t] = "store_key", !.sent[t] = @ + 1,
                                              !.local[t].text = o.val]
                            ELSE [last EXCEPT !.pc[t] = "done", !.sent[t] = @ + 1]
        \/ /\ last.pc[t] = "store_key"                              \* line 462, the store
           /\ SetGlobals([Globals EXCEPT !.WBI_MIXIN_KEY = last.local[t].text])
           /\ last' = [last EXCEPT !.pc[t] = "store_time"]
        \/ /\ last.pc[t] = "store_time"                             \* line 463
           /\ SetGlobals([Globals EXCEPT !.WBI_LAST_FETCHED = last.local[t].stamp])
           /\ last' = [last EXCEPT !.pc[t] = "return", !.stored[t] = TRUE]
        \/ /\ last.pc[t] = "return"                                 \* line 464
           /\ SetGlobals(Globals)
           /\ last' = [last EXCEPT !.pc[t] = "done", !.local[t].text = WBI_MIXIN_KEY]

\* _ensure_buvid, a statement at a time
DeviceStep ==
    /\ phase = "threads"
    /\ last.resource = "device"
    /\ \E t \in Threads :
        \/ /\ last.pc[t] = "check"                                  \* lines 374-375
           /\ SetGlobals(Globals)
           /\ last' = Checked(t, ~BUVID_FETCHED, "cookies", "done")
        \/ /\ last.pc[t] = "cookies"                                \* lines 376-378
           /\ SetGlobals(Globals)
           /\ LET existing3 == get_cookie(cookies, "buvid3")
                  existing4 == get_cookie(cookies, "buvid4")
              IN  last' = IF has_buvid_cookies(existing3, existing4)
                            THEN [last EXCEPT !.pc[t] = "set_buvid3",
                                              !.local[t].pair = <<existing3, existing4>>]
                            ELSE [last EXCEPT !.pc[t] = "spi"]
        \/ /\ last.pc[t] = "spi"                                    \* line 385
           /\ SetGlobals(Globals)
           /\ \E o \in fetch_buvid_pair(Start) :
                last' = IF o.exc = NoExc
                            THEN [last EXCEPT !.pc[t] = "activate", !.sent[t] = @ + 1,
                                              !.local[t].pair = o.val]
                            ELSE [last EXCEPT !.pc[t] = "fallback", !.sent[t] = @ + 1]
        \/ /\ last.pc[t] = "activate"                               \* line 386
           /\ \E o \in activate_buvid(Start, last.local[t].pair) :
                /\ SetGlobals(o.st.g)
                /\ last' = [last EXCEPT !.pc[t] = IF o.exc = NoExc THEN "set_buvid3"
                                                  ELSE "fallback"]
        \/ /\ last.pc[t] = "fallback"                               \* lines 387-391
           /\ SetGlobals([Globals EXCEPT !.cookies = set_cookie(@, "buvid_fp", "uuid_fp")])
           /\ \E pair \in env.local :
                last' = [last EXCEPT !.pc[t] = "set_buvid3", !.local[t].pair = pair]
        \/ /\ last.pc[t] = "set_buvid3"                             \* lines 379, 393
           /\ SetGlobals([Globals EXCEPT !.cookies =
                                set_cookie(@, "buvid3", last.local[t].pair[1])])
           /\ last' = [last EXCEPT !.pc[t] = "set_buvid4"]
        \/ /\ last.pc[t] = "set_buvid4"                             \* lines 380-381, 394-395
           /\ SetGlobals([Globals EXCEPT !.cookies =
                                set_cookie(set_cookie(@, "buvid4", last.local[t].pair[2]),
                                           "opus-goback", "1")])
           /\ last' = [last EXCEPT !.pc[t] = "store_pair"]
        \/ /\ last.pc[t] = "store_pair"                             \* lines 382, 396
           /\ SetGlobals([Globals EXCEPT !.BUVID_PAIR = last.local[t].pair])
           /\ last' = [last EXCEPT !.pc[t] = "store_flag"]
        \/ /\ last.pc[t] = "store_flag"                             \* lines 383, 397
           /\ SetGlobals([Globals EXCEPT !.BUVID_FETCHED = TRUE])
           /\ last' = [last EXCEPT !.pc[t] = "done", !.stored[t] = TRUE]

\* A run of fetches and pauses, then the two threads: a ticket and a key
\* each have lived out their life after one pause
WorldThreads ==
    [bundles |-> {NoBundle, BothBuvids},
     spi |-> {SpiOk, [ok |-> FALSE, b_3 |-> None, b_4 |-> None]},
     activate |-> {ActivateOk},
     local |-> {LocalA},
     ticket |-> {TicketA, TicketFail},
     nav |-> {NavA, NavFail},
     content |-> {ContentOk},
     state_file |-> {NoLedger},
     steps |-> {TICKET_LIFETIME},
     maxTicks |-> MaxTicksDevice]

NextThreads ==
    ApplyAuthCookies \/ FetchVideos \/ Tick \/ Spawn \/ TicketStep \/ KeyStep \/ DeviceStep

SpecThreads == InitIn(WorldThreads) /\ [][NextThreads]_vars

\* The session of a run that meets no failure, for apply_auth_cookies to act on
WorldAuth ==
    [bundles |-> {NoBundle, BothBuvids},
     spi |-> {SpiOk},
     activate |-> {ActivateOk},
     local |-> {LocalA},
     ticket |-> {TicketA},
     nav |-> {NavA},
     content |-> {ContentOk},
     state_file |-> {NoLedger},
     steps |-> {1},
     maxTicks |-> MaxTicksDevice]

NextAuth == ApplyAuthCookies \/ FetchDynamic \/ FetchVideos \/ Tick \/ ApplyAuthCookiesLate

SpecAuth == InitIn(WorldAuth) /\ [][NextAuth]_vars

InitItems == \E body \in ItemBodies : InitIn([WorldItems EXCEPT !.content = {body}])

SpecItems == InitItems /\ [][Next]_vars

\* The toggles of a user: each of the three present or missing
FetchOptions == UNION {[keys -> BOOLEAN] : keys \in SUBSET {"dynamic", "video", "article"}}

ContentTwo == Body(TRUE, 0, "0", None, <<Rec("a"), Rec("b")>>)

ContentEmpty == Body(TRUE, 0, "0", None, <<>>)

\* The generator in full, for every map of toggles: the session always comes
\* up, a content request is answered with a list or fails
WorldFetchAll(fetch_options) ==
    [bundles |-> {NoBundle},
     spi |-> {SpiOk},
     activate |-> {ActivateOk},
     local |-> {LocalA},
     ticket |-> {TicketA},
     nav |-> {NavA},
     content |-> {ContentTwo, ContentEmpty, ContentFail},
     state_file |-> {NoLedger},
     steps |-> {1},
     maxTicks |-> MaxTicksContent,
     fetch_options |-> fetch_options]

InitFetchAll == \E fetch_options \in FetchOptions : InitIn(WorldFetchAll(fetch_options))

NextFetchAll == ApplyAuthCookies \/ FetchAllForUser \/ Tick

SpecFetchAll == InitFetchAll /\ [][NextFetchAll]_vars

\* A record that names itself alike in each of the three feeds and carries
\* the time of its publication
StampedRec(id, ts) ==
    [id_str |-> id, bvid |-> id, id |-> id, created |-> ts, publish_time |-> ts,
     modules |-> [module_author |-> [pub_ts |-> ts]]]

\* Two records, the newer one first
ContentNewer == Body(TRUE, 0, "0", None, <<StampedRec("b", "1700000002"),
                                            StampedRec("a", "1700000001")>>)

Content352 == Body(TRUE, -352, None, "risk control", <<>>)

\* What a user's toggles may be in the configuration: FetchOptions of
\* config.py has all three
UserFetchOptions == [{"dynamic", "video", "article"} -> BOOLEAN]

\* The ledger a state file may hold at the start: none, or one left by an
\* earlier run
StateFiles ==
    {NoLedger,
     "7" :> (CATEGORY_DYNAMIC :> <<"a">>),
     "7" :> ((CATEGORY_VIDEO :> <<"a">>) @@ (CATEGORY_ARTICLE :> <<>>))}

\* The polling cycle in full, for one user with any toggles: the session
\* always comes up; a content request is answered with a list, with the
\* risk-control or the rate-limit code, or fails; the clock stands still
WorldPoller(fetch_options) ==
    [bundles |-> {NoBundle},
     spi |-> {SpiOk},
     activate |-> {ActivateOk},
     local |-> {LocalA},
     ticket |-> {TicketA},
     nav |-> {NavA},
     content |-> {ContentNewer, Content352, Content799, ContentFail},
     state_file |-> StateFiles,
     steps |-> {1},
     maxTicks |-> 0,
     maxCycles |-> MaxCycles,
     users |-> <<7>>,
     notifiers |-> <<NoExc>>,
     fetch_options |-> fetch_options]

InitPoller == \E fetch_options \in UserFetchOptions : InitIn(WorldPoller(fetch_options))

NextPoller == ApplyAuthCookies \/ RunOnce

SpecPoller == InitPoller /\ [][NextPoller]_vars

\* A queue of videos that is full, "a" being its oldest id
RECURSIVE Fillers(_)
Fillers(n) == IF n = 0 THEN <<>> ELSE Fillers(n - 1) \o <<"f" \o NatText(n)>>

FullLedger == "7" :> (CATEGORY_VIDEO :> (<<"a">> \o Fillers(max_ids_per_category - 1)))

MaxCyclesLedger == 2

\* Two records, the older one unknown to FullLedger
ContentOlder == Body(TRUE, 0, "0", None, <<StampedRec("a", "1700000002"),
                                            StampedRec("c", "1700000001")>>)

\* Cycle after cycle for one user with any toggles: a content request is
\* answered with two items or with the risk-control code
WorldLedger(fetch_options) ==
    [bundles |-> {NoBundle},
     spi |-> {SpiOk},
     activate |-> {ActivateOk},
     local |-> {LocalA},
     ticket |-> {TicketA},
     nav |-> {NavA},
     content |-> {ContentNewer, ContentOlder, Content352},
     state_file |-> {NoLedger, FullLedger},
     steps |-> {1},
     maxTicks |-> 0,
     maxCycles |-> MaxCyclesLedger,
     users |-> <<7>>,
     notifiers |-> <<NoExc>>,
     fetch_options |-> fetch_options]

InitLedger == \E fetch_options \in UserFetchOptions : InitIn(WorldLedger(fetch_options))

SpecLedger == InitLedger /\ [][NextPoller]_vars

\* A reply whose only record has a null author: fetch_dynamic raises on it
ContentNullAuthor == Body(TRUE, 0, "0", None, <<NullAuthorRecord>>)

\* What the toggles of the two-user world may be
UsersFetchOptions ==
    {o \in UserFetchOptions : ~o["article"] /\ (o["dynamic"] \/ o["video"])}

\* What the notifiers of the configuration do when they send: one that
\* works, or a crashing one before it
NotifierSets == {<<NoExc>>, <<TransportError, NoExc>>}

\* A ledger that holds the older item of both users, in both categories
BothLedger ==
    LET queues == (CATEGORY_DYNAMIC :> <<"a">>) @@ (CATEGORY_VIDEO :> <<"a">>)
    IN  ("7" :> queues) @@ ("8" :> queues)

\* Two users polled one after the other: a content request is answered with
\* two items, with a null author or not at all
WorldUsers(fetch_options, notifiers) ==
    [bundles |-> {NoBundle},
     spi |-> {SpiOk},
     activate |-> {ActivateOk},
     local |-> {LocalA},
     ticket |-> {TicketA},
     nav |-> {NavA},
     content |-> {ContentNewer, ContentNullAuthor, ContentFail},
     state_file |-> {NoLedger, BothLedger},
     steps |-> {1},
     maxTicks |-> 0,
     maxCycles |-> MaxCycles,
     users |-> <<7, 8>>,
     notifiers |-> notifiers,
     fetch_options |-> fetch_options]

InitUsers ==
    \E fetch_options \in UsersFetchOptions, notifiers \in NotifierSets :
        InitIn(WorldUsers(fetch_options, notifiers))

SpecUsers == InitUsers /\ [][NextPoller]_vars

-----------------------------------------------------------------------------
(* The ledger on its own: remember and bulk_remember called on a State that  *)
(* found no state file.  A run begins with the calls of a script, which may  *)
(* fill a queue, and goes on with up to MaxCalls calls of any kind.          *)

MaxCalls == 3

QueueMids == {7, 8}

QueueCategories == {CATEGORY_DYNAMIC, CATEGORY_VIDEO}

Entry(category, item_id) == [category |-> category, item_id |-> item_id]

\* The videos f<from> .. f<to>
FillerEntries(from, to) ==
    [n \in 1..(to - from + 1) |-> Entry(CATEGORY_VIDEO, "f" \o NatText(from + n - 1))]

\* A fifth of a full queue
BatchLength == max_ids_per_category \div 5

\* bulk_remember calls that remember f1 .. f49, a fifth of a queue at a time
FillScript ==
    [k \in 1..5 |->
        FillerEntries((k - 1) * BatchLength + 1,
                      IF k = 5 THEN max_ids_per_category - 1 ELSE k * BatchLength)]

\* The calls a run begins with: none, the videos f1 .. f49, or the video "a"
\* and then f1 .. f49, which fill the queue
Scripts == {<<>>, FillScript, <<<<Entry(CATEGORY_VIDEO, "a")>>>> \o FillScript}

\* What one call of remember is given
RememberCalls ==
    {[mid |-> 7, entry |-> Entry(CATEGORY_VIDEO, item_id)] : item_id \in {"a", "b", "f1"}}
        \cup {[mid |-> 8, entry |-> Entry(CATEGORY_VIDEO, "a")],
              [mid |-> 7, entry |-> Entry(CATEGORY_DYNAMIC, "a")]}

\* What one call of bulk_remember is given after the script: videos of which
\* some may be known and the others may be more than the queue has room for,
\* and two categories with an id twice
Batches ==
    {FillerEntries(max_ids_per_category - 5, max_ids_per_category + 5),
     <<Entry(CATEGORY_DYNAMIC, "a"), Entry(CATEGORY_VIDEO, "b"),
       Entry(CATEGORY_DYNAMIC, "a")>>}

\* The ids the calls name, and one they never name
QueueIds == {"a", "b", "zz"} \cup {"f" \o NatText(n) : n \in 1..(max_ids_per_category + 5)}

LastN(seq, n) == IF Len(seq) <= n THEN seq ELSE SubSeq(seq, Len(seq) - n + 1, Len(seq))

NoLog == [queue \in QueueMids \X QueueCategories |-> <<>>]

\* The log of the ids appended to a queue: an id is appended when it is not
\* among the latest max_ids_per_category of the log
RECURSIVE LoggedIds(_, _)
LoggedIds(ids, entries) ==
    IF entries = <<>> THEN ids
    ELSE IF IsIn(Head(entries).item_id, LastN(ids, max_ids_per_category))
        THEN LoggedIds(ids, Tail(entries))
        ELSE LoggedIds(Append(ids, Head(entries).item_id), Tail(entries))

\* The log of each queue after a call that names the account mid
Logged(log, mid, entries) ==
    [queue \in QueueMids \X QueueCategories |->
        IF queue[1] = mid
            THEN LET InQueue(entry) == entry.category = queue[2]
                 IN  LoggedIds(log[queue], SelectSeq(entries, InQueue))
            ELSE log[queue]]

LogBefore == IF last.op \in {"remember", "bulk_remember"} THEN last.log ELSE NoLog

\* State.remember(mid, category, item_id)
Remember ==
    /\ cycles >= Len(env.script)
    /\ cycles < Len(env.script) + env.maxCalls
    /\ cycles' = cycles + 1
    /\ \E call \in RememberCalls :
        /\ seen' = remember(seen, call.mid, call.entry.category, call.entry.item_id)
        /\ last' = [op |-> "remember", pre_seen |-> seen, mid |-> call.mid,
                    entries |-> <<call.entry>>,
                    log |-> Logged(LogBefore, call.mid, <<call.entry>>)]
    /\ UNCHANGED <<cookies, BUVID_FETCHED, BUVID_PAIR, BILI_TICKET,
                   BILI_TICKET_EXPIRES_AT, WBI_MIXIN_KEY, WBI_LAST_FETCHED, now, ticks,
                   phase, env>>

\* State.bulk_remember(entries), the entries being of one account
BulkRemember ==
    /\ cycles < Len(env.script) + env.maxCalls
    /\ cycles' = cycles + 1
    /\ \E mid \in {7},
          entries \in IF cycles < Len(env.script) THEN {env.script[cycles + 1]} ELSE Batches :
        /\ seen' = bulk_remember(seen, mid, entries)
        /\ last' = [op |-> "bulk_remember", pre_seen |-> seen, mid |-> mid,
                    entries |-> entries,
                    log |-> Logged(LogBefore, mid, entries)]
    /\ UNCHANGED <<cookies, BUVID_FETCHED, BUVID_PAIR, BILI_TICKET,
                   BILI_TICKET_EXPIRES_AT, WBI_MIXIN_KEY, WBI_LAST_FETCHED, now, ticks,
                   phase, env>>

WorldQueue(script) == [maxCalls |-> MaxCalls, script |-> script]

InitQueue == \E script \in Scripts : InitIn(WorldQueue(script))

NextQueue == Remember \/ BulkRemember

SpecQueue == InitQueue /\ [][NextQueue]_vars

-----------------------------------------------------------------------------
(* What the properties below say about the operation that ran last *)

IsFetch == last.op \in Fetchers

IsSigned == last.op \in {"fetch_videos", "fetch_articles"}

\* The reply's top-level code is 0 or absent
CodeOk(r) == r.ok /\ (~r.hasCode \/ r.code = 0)

Code799(r) == r.ok /\ r.hasCode /\ r.code = -799

Returned == last.exc = NoExc

ItemIds == [i \in 1..Len(last.items) |-> last.items[i].item_id]

\* The returned items are the records of reply r, in order: a prefix of
\* them, and all of them when r holds no more than `limit`
ItemsAreFrom(r) ==
    /\ Len(ItemIds) <= Len(r.records)
    /\ ItemIds = [i \in 1..Len(ItemIds) |-> r.records[i].id]
    /\ Len(r.records) <= last.limit => Len(ItemIds) = Len(r.records)

\* The API error _raise_for_code raises for reply r
CarriesCodeOf(exc, r) ==
    /\ exc.type = "RuntimeError"
    /\ Contains(exc.text, "API error " \o IntText(r.code) \o ": ")
    /\ Truthy(r.message) => Contains(exc.text, r.message)
    /\ ~Truthy(r.message) /\ Truthy(r.msg) => Contains(exc.text, r.msg)

-----------------------------------------------------------------------------
\* C1: in fetch_videos and fetch_articles, a first content response with code
\* -799 followed by a second with code 0 or no code returns the items of the
\* second response after exactly one forced signing-key refresh; two -799
\* responses raise the API error after exactly two content requests; no call
\* issues a third content request.
C1_RetryOnce ==
    IsSigned =>
        /\ Count(last.trace, "content") <= 2
        /\ Len(last.resps) = 2 /\ Code799(last.resps[1]) /\ CodeOk(last.resps[2]) =>
            /\ Returned
            /\ ItemsAreFrom(last.resps[2])
            /\ Count(last.trace, "force_refresh") = 1
        /\ Len(last.resps) = 2 /\ Code799(last.resps[1]) /\ Code799(last.resps[2]) =>
            /\ CarriesCodeOf(last.exc, last.resps[2])
            /\ Count(last.trace, "content") = 2
        /\ Len(last.resps) >= 1 /\ Code799(last.resps[1]) /\ Len(last.resps) # 2 =>
            /\ ~Returned
            /\ last.trace[Len(last.trace)] = "nav"

C1_Witness ==
    /\ IsSigned
    /\ Len(last.resps) = 2
    /\ Code799(last.resps[1])
    /\ CodeOk(last.resps[2])
    /\ Returned
    /\ Len(last.items) = 2
    /\ Count(last.trace, "force_refresh") = 1

-----------------------------------------------------------------------------
\* C2: once a ticket is cached, a call of _ensure_bili_ticket made while
\* now < expiry - 60 sends no ticket-issuance request, and a call made when
\* now >= expiry - 60 sends exactly one.
C2_TicketCached ==
    IsFetch /\ Truthy(last.pre.BILI_TICKET) =>
        IF last.pre.clock < last.pre.BILI_TICKET_EXPIRES_AT - 60
            THEN Count(last.trace, "ticket") = 0
            ELSE Count(last.trace, "ticket") = 1

C2_Witness ==
    /\ IsFetch
    /\ Truthy(last.pre.BILI_TICKET)
    /\ last.pre.clock = last.pre.BILI_TICKET_EXPIRES_AT - 60
    /\ Count(last.trace, "ticket") = 1
    /\ BILI_TICKET_EXPIRES_AT = last.pre.clock + 259200

-----------------------------------------------------------------------------
(* The signing key, as a signed fetcher shows it: its first call of         *)
(* _get_wbi_mixin_key is the unforced one of the first _sign_wbi_params,    *)
(* made at the clock value the fetcher started with.                        *)

\* The first call of _get_wbi_mixin_key went to the navigation endpoint
FirstKeyCallRefreshed ==
    \E i \in 1..Len(last.trace) :
        /\ last.trace[i] = "nav"
        /\ \A j \in 1..(i - 1) : last.trace[j] \notin {"content", "force_refresh"}

KeyAge == last.pre.clock - last.pre.WBI_LAST_FETCHED

\* The reply holds both asset URLs
Usable(nav) == nav.ok /\ Truthy(nav.img_url) /\ Truthy(nav.sub_url)

LastNav == last.replies.nav[Len(last.replies.nav)]

\* C3 as stated: the cached key is returned without a navigation request
\* exactly when a key is cached, the call is not forced and the key is less
\* than 3600 seconds old.
C3_Original ==
    IsSigned => (~FirstKeyCallRefreshed <=> Truthy(last.pre.WBI_MIXIN_KEY) /\ KeyAge < 3600)

\* C3 (amended): _get_wbi_mixin_key returns the cached key without a
\* navigation request exactly when a key is cached, the call is not forced and
\* the key is at most 3600 seconds old; in every other case (no key, forced,
\* older than 3600 seconds) it calls the navigation endpoint and, when the
\* reply yields a key, replaces the cached key and its fetch time.
C3_KeyCache ==
    IsSigned =>
        /\ ~FirstKeyCallRefreshed <=> Truthy(last.pre.WBI_MIXIN_KEY) /\ KeyAge <= 3600
        /\ ~FirstKeyCallRefreshed =>
            /\ Len(last.signed) >= 1
            /\ last.signed[1].mixin_key = last.pre.WBI_MIXIN_KEY
        /\ FirstKeyCallRefreshed /\ Len(last.signed) >= 1 =>
            /\ Usable(last.replies.nav[1])
            /\ last.signed[1].mixin_key =
                 derive_mixin_key(last.replies.nav[1].img_url, last.replies.nav[1].sub_url)
        /\ \A i \in 1..Len(last.trace) :
            last.trace[i] = "force_refresh" =>
                i < Len(last.trace) /\ last.trace[i + 1] = "nav"
        /\ IF Len(last.replies.nav) = 0
            THEN /\ WBI_MIXIN_KEY = last.pre.WBI_MIXIN_KEY
                 /\ WBI_LAST_FETCHED = last.pre.WBI_LAST_FETCHED
            ELSE Usable(LastNav) =>
                 /\ WBI_MIXIN_KEY = derive_mixin_key(LastNav.img_url, LastNav.sub_url)
                 /\ WBI_LAST_FETCHED = last.pre.clock

C3_Witness ==
    /\ IsSigned
    /\ Truthy(last.pre.WBI_MIXIN_KEY)
    /\ KeyAge = 3600
    /\ ~FirstKeyCallRefreshed
    /\ Returned
    /\ NetCalls(last.trace) = <<"content">>

-----------------------------------------------------------------------------
(* The device flow and the ticket flow, as a fetcher shows them *)

Jar(name) == get_cookie(cookies, name)

\* The device flow went to the network and the issuance or the activation
\* failed: a transport error, a missing b_3 / b_4, a non-zero activation code
DeviceBootstrapFailed ==
    /\ IsFetch
    /\ Len(last.replies.spi) = 1
    /\ LET spi == last.replies.spi[1]
       IN  \/ ~spi.ok
           \/ ~Truthy(spi.b_3) \/ ~Truthy(spi.b_4)
           \/ /\ Len(last.replies.activate) = 1
              /\ \/ ~last.replies.activate[1].ok
                 \/ last.replies.activate[1].code # 0

\* The fetcher raised in signing: the navigation reply gave no key, and
\* nothing was requested after it
SigningRaised ==
    /\ IsSigned
    /\ ~Returned
    /\ Len(last.replies.nav) >= 1
    /\ ~Usable(LastNav)
    /\ last.trace[Len(last.trace)] = "nav"

\* C4 as stated: whenever the issuance or the activation fails, the calling
\* fetcher goes on to issue its content request.
C4_Original == DeviceBootstrapFailed => Count(last.trace, "content") >= 1

\* C4 (amended): _ensure_buvid never raises: whenever the issuance or the
\* activation fails, the device flow completes with non-empty locally
\* synthesized buvid3 and buvid4 cookies and a buvid_fp cookie, and the calling
\* fetcher goes on past the bootstrap: fetch_dynamic issues its content
\* request, and fetch_videos and fetch_articles issue theirs unless the
\* signing-key derivation raises.
C4_DeviceFallback ==
    DeviceBootstrapFailed =>
        /\ BUVID_FETCHED
        /\ BUVID_PAIR \in LocalPairs
        /\ Jar("buvid3") = BUVID_PAIR[1] /\ Truthy(Jar("buvid3"))
        /\ Jar("buvid4") = BUVID_PAIR[2] /\ Truthy(Jar("buvid4"))
        /\ Truthy(Jar("buvid_fp"))
        /\ ~ticket_is_fresh([g |-> last.pre]) => Count(last.trace, "ticket") = 1
        /\ last.op = "fetch_dynamic" => Count(last.trace, "content") = 1
        /\ IsSigned => Count(last.trace, "content") >= 1 \/ SigningRaised

C4_Witness ==
    /\ DeviceBootstrapFailed
    /\ last.op = "fetch_videos"
    /\ ~last.replies.spi[1].ok
    /\ Count(last.trace, "content") = 1
    /\ Returned
    /\ BUVID_PAIR \in LocalPairs

-----------------------------------------------------------------------------
\* C5: when the buvid3 and buvid4 cookies are both in the session as the
\* device flow first runs, the flow completes without a fingerprint-issuance
\* or activation request and the cached device identity is those two values.
C5_TrustedCookies ==
    /\ IsFetch
    /\ ~last.pre.BUVID_FETCHED
    /\ Truthy(last.pre.cookies["buvid3"])
    /\ Truthy(last.pre.cookies["buvid4"])
    => /\ BUVID_FETCHED
       /\ BUVID_PAIR = <<last.pre.cookies["buvid3"], last.pre.cookies["buvid4"]>>
       /\ Count(last.trace, "spi") = 0
       /\ Count(last.trace, "activate") = 0
       /\ Jar("buvid3") = last.pre.cookies["buvid3"]
       /\ Jar("buvid4") = last.pre.cookies["buvid4"]

C5_Witness ==
    /\ IsFetch
    /\ ~last.pre.BUVID_FETCHED
    /\ last.pre.cookies["buvid3"] = "cfg_buvid3"
    /\ last.pre.cookies["buvid4"] = "cfg_buvid4"
    /\ BUVID_PAIR = <<"cfg_buvid3", "cfg_buvid4">>
    /\ ~(\E i \in 1..Len(last.trace) : last.trace[i] \in {"spi", "activate"})

-----------------------------------------------------------------------------
\* The ticket-issuance request failed or its reply held no ticket
TicketIssuanceFailed ==
    /\ IsFetch
    /\ Len(last.replies.ticket) = 1
    /\ ~(last.replies.ticket[1].ok /\ Truthy(last.replies.ticket[1].ticket))

\* C6 as stated: when the ticket-issuance call fails or returns no ticket,
\* the calling fetcher still issues its content request.
C6_Original == TicketIssuanceFailed => Count(last.trace, "content") >= 1

\* C6 (amended): _ensure_bili_ticket never raises: when the ticket-issuance
\* call fails or returns no ticket, the calling fetcher goes on without a
\* ticket: fetch_dynamic issues its content request, fetch_videos and
\* fetch_articles issue theirs unless the signing-key derivation raises, and
\* each can still return a list.
C6_TicketLess ==
    TicketIssuanceFailed =>
        /\ last.trace[Len(last.trace)] # "ticket"
        /\ last.op = "fetch_dynamic" => Count(last.trace, "content") = 1
        /\ IsSigned => Count(last.trace, "content") >= 1 \/ SigningRaised
        /\ Count(last.trace, "content") >= 1 /\ CodeOk(last.resps[Len(last.resps)])
            => Returned

C6_Witness ==
    /\ TicketIssuanceFailed
    /\ ~last.replies.ticket[1].ok
    /\ last.op = "fetch_articles"
    /\ Returned
    /\ Len(last.items) = 1
    /\ ~Truthy(BILI_TICKET)

-----------------------------------------------------------------------------
\* The caches are all valid as the fetcher starts: the device flow is done,
\* the ticket is good for more than 60 seconds, the key is no older than its
\* lifetime
SteadyState ==
    /\ IsFetch
    /\ last.pre.BUVID_FETCHED
    /\ Truthy(last.pre.BILI_TICKET)
    /\ last.pre.clock < last.pre.BILI_TICKET_EXPIRES_AT - 60
    /\ Truthy(last.pre.WBI_MIXIN_KEY)
    /\ KeyAge <= 3600

BootstrapRequests == {"spi", "activate", "ticket"}

-----------------------------------------------------------------------------
LastResp == last.resps[Len(last.resps)]

\* The forced refresh of the retry raised: the call ended in the navigation
\* request that followed the first content response
RefreshRaised ==
    /\ IsSigned
    /\ Len(last.trace) >= 2
    /\ last.trace[Len(last.trace) - 1] = "force_refresh"
    /\ last.trace[Len(last.trace)] = "nav"
    /\ ~Usable(LastNav)

\* C8 as stated: a list is returned only when the last content response had
\* code 0 or no code; whenever the last response has another code the fetcher
\* raises an error carrying the code and message, and when the request fails
\* at transport level it raises; no list is returned in either case.
C8_Original ==
    IsFetch =>
        /\ Returned => Len(last.resps) >= 1 /\ CodeOk(LastResp)
        /\ Len(last.resps) >= 1 /\ ~CodeOk(LastResp) =>
            /\ ~Returned
            /\ last.items = <<>>
            /\ LastResp.ok => CarriesCodeOf(last.exc, LastResp)
            /\ ~LastResp.ok => last.exc = TransportError

\* C8 (amended): each fetcher returns a list only when its last content
\* response had code 0 or no code; whenever the last response has any other
\* code, or the request fails at transport level, the fetcher raises and
\* returns no list; the error carries the code and message of that response,
\* except when fetch_videos or fetch_articles fails in the forced key refresh
\* of its retry, where the error is the one of the navigation request.
C8_ListOrError ==
    IsFetch =>
        /\ Returned => Len(last.resps) >= 1 /\ CodeOk(LastResp) /\ ItemsAreFrom(LastResp)
        /\ Len(last.resps) = 0 => ~Returned
        /\ Len(last.resps) >= 1 /\ ~CodeOk(LastResp) =>
            /\ ~Returned
            /\ last.items = <<>>
            /\ LastResp.ok /\ ~RefreshRaised => CarriesCodeOf(last.exc, LastResp)
            /\ LastResp.ok /\ RefreshRaised =>
                /\ ~CarriesCodeOf(last.exc, LastResp)
                /\ ~LastNav.ok => last.exc = TransportError
            /\ ~LastResp.ok => last.exc = TransportError

C8_Witness ==
    /\ last.op = "fetch_dynamic"
    /\ Len(last.resps) = 1
    /\ LastResp.ok /\ LastResp.code = -352 /\ LastResp.msg = "risk control"
    /\ last.exc = RuntimeError("Bilibili API error -352: risk control")
    /\ last.items = <<>>

-----------------------------------------------------------------------------
\* C9: in fetch_videos and fetch_articles the retry is taken only for API
\* code -799: when the first content response carries any other non-zero
\* code, whatever its message text, or the request fails at transport level,
\* the fetcher raises after that single content request, with no forced
\* signing-key refresh and no second request.
C9_RetryOnlyOn799 ==
    /\ IsSigned
    /\ Len(last.resps) >= 1
    /\ ~CodeOk(last.resps[1])
    /\ ~Code799(last.resps[1])
    => /\ ~Returned
       /\ Count(last.trace, "content") = 1
       /\ Count(last.trace, "force_refresh") = 0

-----------------------------------------------------------------------------
\* C10 as stated: every fetcher, fetch_dynamic included, reacts to a -799
\* code on the first content response with one forced key refresh and one
\* retry of the content request.
C10_Original ==
    IsFetch /\ Len(last.resps) >= 1 /\ Code799(last.resps[1]) =>
        /\ Count(last.trace, "force_refresh") = 1
        /\ RefreshRaised \/ Count(last.trace, "content") = 2

\* C10 (amended): fetch_videos and fetch_articles react to a -799 code on the
\* first content response by force-refreshing the signing key and, when the
\* refresh succeeds, retrying the content request exactly once; they propagate
\* an error only if the retry fails again or the refresh itself raises.
\* fetch_dynamic has no retry: it raises the API error after its single
\* content request.
C10_RetryPerFetcher ==
    IsFetch /\ Len(last.resps) >= 1 /\ Code799(last.resps[1]) =>
        /\ IsSigned =>
            /\ Count(last.trace, "force_refresh") = 1
            /\ Count(last.trace, "nav") >= 1
            /\ IF RefreshRaised
                THEN Count(last.trace, "content") = 1 /\ ~Returned
                ELSE /\ Count(last.trace, "content") = 2
                     /\ Count(last.trace, "sleep") = 1
                     /\ Returned <=> CodeOk(last.resps[2])
                     /\ last.signed[2].mixin_key = WBI_MIXIN_KEY
                     /\ WBI_MIXIN_KEY = derive_mixin_key(LastNav.img_url, LastNav.sub_url)
        /\ last.op = "fetch_dynamic" =>
            /\ Count(last.trace, "content") = 1
            /\ Count(last.trace, "force_refresh") = 0
            /\ Count(last.trace, "nav") = 0
            /\ CarriesCodeOf(last.exc, last.resps[1])

C10_Witness ==
    /\ last.op = "fetch_articles"
    /\ Len(last.resps) = 2
    /\ Code799(last.resps[1])
    /\ Len(last.replies.nav) = 2
    /\ last.signed[1].mixin_key # last.signed[2].mixin_key
    /\ Returned
    /\ Len(last.items) = 2

-----------------------------------------------------------------------------
\* The last navigation reply of the call arrived and lacks an asset URL
NavLacksUrl ==
    /\ IsSigned
    /\ Len(last.replies.nav) >= 1
    /\ LastNav.ok
    /\ ~(Truthy(LastNav.img_url) /\ Truthy(LastNav.sub_url))

\* The failing derivation was the forced one of the retry
ForcedDerivation ==
    /\ Len(last.trace) >= 2
    /\ last.trace[Len(last.trace) - 1] = "force_refresh"

\* C11: when the navigation response lacks either asset URL, the derivation
\* raises and the signed fetcher raises with it, issuing no content request
\* after it (none at all when the derivation was that of its first signing);
\* the cached signing key and its fetch time keep the values they had before
\* the derivation, also when it was a forced refresh.
C11_DerivationFails ==
    NavLacksUrl =>
        /\ last.exc = RuntimeError("Failed to obtain wbi mixin key from nav response")
        /\ last.trace[Len(last.trace)] = "nav"
        /\ last.items = <<>>
        /\ IF ForcedDerivation
            THEN /\ Count(last.trace, "content") = 1
                 /\ WBI_MIXIN_KEY = last.signed[1].mixin_key
                 /\ WBI_LAST_FETCHED =
                        IF Len(last.replies.nav) = 1 THEN last.pre.WBI_LAST_FETCHED
                        ELSE last.pre.clock
            ELSE /\ Count(last.trace, "content") = 0
                 /\ WBI_MIXIN_KEY = last.pre.WBI_MIXIN_KEY
                 /\ WBI_LAST_FETCHED = last.pre.WBI_LAST_FETCHED

\* A forced refresh that fails on a key fetched earlier, and leaves it
C11_Witness ==
    /\ NavLacksUrl
    /\ ForcedDerivation
    /\ ~Truthy(LastNav.sub_url)
    /\ Len(last.replies.nav) = 1
    /\ Truthy(WBI_MIXIN_KEY)
    /\ WBI_LAST_FETCHED = last.pre.WBI_LAST_FETCHED
    /\ WBI_LAST_FETCHED < last.pre.clock

-----------------------------------------------------------------------------
\* The cookies the device flow and the ticket flow set
FlowCookies ==
    {"buvid3", "buvid4", "buvid_fp", "opus-goback", "bili_ticket", "bili_ticket_expires"}

OtherCookiesKept ==
    \A name \in CookieNames \ FlowCookies : cookies[name] = last.pre.cookies[name]

\* A navigation request of the call was answered with a usable reply
KeyDerived ==
    \E i \in 1..Len(last.replies.nav) :
        Usable(last.replies.nav[i]) /\ DerivedKeys[last.replies.nav[i]] # ""

\* C12 as stated: a fetcher invocation changes nothing but the device flag
\* and pair, the ticket and its expiry and the cookies of those two flows;
\* every other shared variable, the signing key and its fetch time included,
\* is after the call what it was before.
C12_Original ==
    IsFetch =>
        /\ OtherCookiesKept
        /\ WBI_MIXIN_KEY = last.pre.WBI_MIXIN_KEY
        /\ WBI_LAST_FETCHED = last.pre.WBI_LAST_FETCHED

\* C12 (amended): a fetcher invocation changes no process-wide state other
\* than the caches prepareSession maintains (device flag and pair, ticket and
\* expiry, the cookies those two flows set) and, in fetch_videos and
\* fetch_articles, the cached signing key and its fetch time, which change
\* only when a navigation request of the call yields a key; fetch_dynamic
\* leaves the signing key and its fetch time as they were. This holds for
\* successful, retried and failed calls.
C12_Frame ==
    IsFetch =>
        /\ OtherCookiesKept
        /\ last.op = "fetch_dynamic" =>
            /\ WBI_MIXIN_KEY = last.pre.WBI_MIXIN_KEY
            /\ WBI_LAST_FETCHED = last.pre.WBI_LAST_FETCHED
        /\ IsSigned /\ ~KeyDerived =>
            /\ WBI_MIXIN_KEY = last.pre.WBI_MIXIN_KEY
            /\ WBI_LAST_FETCHED = last.pre.WBI_LAST_FETCHED
        /\ IsSigned /\ KeyDerived =>
            /\ WBI_MIXIN_KEY = last.signed[Len(last.signed)].mixin_key
               \/ RefreshRaised \/ ~Returned
            /\ WBI_LAST_FETCHED >= last.pre.clock
        /\ last.pre.BUVID_FETCHED =>
            /\ BUVID_FETCHED
            /\ BUVID_PAIR = last.pre.BUVID_PAIR
            /\ \A name \in {"buvid3", "buvid4", "buvid_fp", "opus-goback"} :
                    cookies[name] = last.pre.cookies[name]
        /\ Count(last.trace, "ticket") = 0 =>
            /\ BILI_TICKET = last.pre.BILI_TICKET
            /\ BILI_TICKET_EXPIRES_AT = last.pre.BILI_TICKET_EXPIRES_AT
            /\ cookies["bili_ticket"] = last.pre.cookies["bili_ticket"]
            /\ cookies["bili_ticket_expires"] = last.pre.cookies["bili_ticket_expires"]

\* A retried call that returns, with the key's fetch time moved and the
\* device identity it started with
C12_Witness ==
    /\ last.op = "fetch_videos"
    /\ last.pre.BUVID_FETCHED
    /\ Count(last.trace, "force_refresh") = 1
    /\ Returned
    /\ WBI_LAST_FETCHED # last.pre.WBI_LAST_FETCHED
    /\ BUVID_PAIR = last.pre.BUVID_PAIR
    /\ OtherCookiesKept

-----------------------------------------------------------------------------
(* Two calls of _sign_wbi_params *)

IsSigning == last.op = "sign_wbi_params" /\ last.exc = NoExc

KeysOf(d) == [i \in DOMAIN d |-> d[i][1]]

\* The input holds the key with a value
Supplies(d, key) == \E i \in DOMAIN d : d[i][1] = key /\ d[i][2] # None

RandomFields == {"dm_img_str", "dm_cover_img_str"}

\* C13 as stated: with the mixin key and the clock fixed, two calls on the
\* same key-value pairs in any insertion order return identical outputs, with
\* include_mouse false and with include_mouse true.
C13_Original == IsSigning => last.outputs[1] = last.outputs[2]

\* C13 (amended): with the mixin key and the clock fixed, two calls on the
\* same key-value pairs in any insertion order return identical outputs when
\* include_mouse is false, and when include_mouse is true and the input
\* supplies both dm_img_str and dm_cover_img_str. With include_mouse true
\* otherwise, the two outputs have the same keys in the same order and the
\* same values except for the randomly drawn dm_img_str and dm_cover_img_str
\* the input does not supply and the w_rid computed over them.
C13_SignDeterministic ==
    IsSigning =>
        LET a == last.outputs[1]
            b == last.outputs[2]
        IN  /\ ~last.include_mouse => a = b
            /\ (\A f \in RandomFields : Supplies(last.params, f)) => a = b
            /\ KeysOf(a) = KeysOf(b)
            /\ \A i \in DOMAIN a :
                    \/ a[i] = b[i]
                    \/ /\ last.include_mouse
                       /\ a[i][1] \in RandomFields \cup {"w_rid"}
                       /\ \E f \in RandomFields : ~Supplies(last.params, f)
                       /\ a[i][1] \in RandomFields => ~Supplies(last.params, a[i][1])
            /\ DictGet(a, "wts") = IntText(last.pre.clock)
            /\ KeysOf(a)[Len(a)] = "w_rid"

\* Four pairs written in two different orders, signed alike
C13_Witness ==
    /\ IsSigning
    /\ Len(last.params) = 4
    /\ last.reordered # last.params
    /\ last.reordered[1] = last.params[4]
    /\ last.include_mouse
    /\ last.outputs[1] = last.outputs[2]
    /\ Len(last.outputs[1]) = 9

-----------------------------------------------------------------------------
FiveCharacters == {"!", "'", "(", ")", "*"}

\* The places of a text that hold none of the five characters
KeptPlaces(text) == {i \in 1..Len(text) : SubSeq(text, i, i) \notin FiveCharacters}

\* `stripped` is `text` without the five characters, the rest in its order
IsStrippedOf(stripped, text) ==
    /\ Len(stripped) = Cardinality(KeptPlaces(text))
    /\ \A i \in KeptPlaces(text) :
            LET n == Cardinality({j \in KeptPlaces(text) : j <= i})
            IN  SubSeq(stripped, n, n) = SubSeq(text, i, i)

\* C14: for every input key of _sign_wbi_params with a non-None value, other
\* than wts and w_rid, the output value is the input value with every
\* occurrence of ! ' ( ) * removed and the other characters kept in order;
\* no output value holds one of the five characters (w_rid is a hex digest).
C14_StripsForbidden ==
    IsSigning =>
        LET out == last.outputs[1]
        IN  /\ \A i \in DOMAIN last.params :
                    last.params[i][2] # None /\ last.params[i][1] \notin {"wts", "w_rid"} =>
                        /\ last.params[i][1] \in DictKeys(out)
                        /\ IsStrippedOf(DictGet(out, last.params[i][1]), last.params[i][2])
            /\ \A i \in DOMAIN last.params :
                    last.params[i][2] = None => last.params[i][1] \notin DictKeys(out)
            /\ \A i \in DOMAIN out :
                    out[i][1] # "w_rid" => KeptPlaces(out[i][2]) = 1..Len(out[i][2])

C14_Witness ==
    /\ IsSigning
    /\ last.include_mouse
    /\ Supplies(last.params, "keyword")
    /\ DictGet(last.params, "keyword") = "a!'b()c*d"
    /\ DictGet(last.outputs[1], "keyword") = "abcd"
    /\ DictGet(last.outputs[1], "dm_cover_img_str") = "KA"

-----------------------------------------------------------------------------
\* The text of an asset URL after its last "/" and before the first "."
\* that follows
StemOf(url) ==
    LET start == IF Places(url, "/") = {} THEN 1 ELSE SetMax(Places(url, "/")) + 1
        dots == {i \in Places(url, ".") : i >= start}
        stop == IF dots = {} THEN Len(url) ELSE SetMin(dots) - 1
    IN  SubSeq(url, start, stop)

\* The two stems of each reply that holds both URLs, joined
RawKeys ==
    [resp \in {r \in NavResponses : Usable(r)} |->
        StemOf(resp.img_url) \o StemOf(resp.sub_url)]

RawKey == RawKeys[LastNav]

\* The last navigation reply of the call holds two asset URLs whose stems
\* make 64 characters
DerivedFrom64 ==
    /\ IsSigned
    /\ Len(last.replies.nav) >= 1
    /\ Usable(LastNav)
    /\ Len(RawKey) = 64

\* C15: for two asset-name stems whose concatenation raw has 64 characters
\* the derived mixin key has exactly 32 characters and its i-th character is
\* raw[T[i]] for i in 0..31, T being _WBI_MIXIN_KEY_ORDER; the stem of an
\* asset URL is the text after its last "/" and before the first ".".
C15_MixinKey ==
    DerivedFrom64 =>
        /\ Len(WBI_MIXIN_KEY) = 32
        /\ \A i \in 0..31 :
                SubSeq(WBI_MIXIN_KEY, i + 1, i + 1) =
                    SubSeq(RawKey, WBI_MIXIN_KEY_ORDER[i + 1] + 1, WBI_MIXIN_KEY_ORDER[i + 1] + 1)
        /\ Len(WBI_MIXIN_KEY_ORDER) = 64
        /\ {WBI_MIXIN_KEY_ORDER[i] : i \in 1..64} = 0..63

C15_Witness ==
    /\ DerivedFrom64
    /\ LastNav = NavB
    /\ StemOf(ImgB) = "0123456789abcdefghijklmnopqrstuv"
    /\ StemOf(SubB) = "ABCDEFGHIJKLMNOPQRSTUVWXYZ_-0123"
    /\ Len(WBI_MIXIN_KEY) = 32
    /\ WBI_MIXIN_KEY # last.pre.WBI_MIXIN_KEY

-----------------------------------------------------------------------------
(* Normalisation: the items of a list the content endpoint returned *)

\* The records of the reply the returned items were made from
Records == last.resps[Len(last.resps)].records

\* The fetcher returned the items of a reply
Normalised == IsFetch /\ Returned /\ Len(last.resps) >= 1

Has(obj, key) == key \in DOMAIN obj

\* The record holds neither id_str nor id
HasNoId(raw) == ~Has(raw, "id_str") /\ ~Has(raw, "id")

\* The author module's pub_ts, "0" when the record holds none
PubTsOf(raw) ==
    IF /\ Has(raw, "modules")
       /\ Has(raw["modules"], "module_author")
       /\ Has(raw["modules"]["module_author"], "pub_ts")
        THEN raw["modules"]["module_author"]["pub_ts"]
        ELSE "0"

\* C16: every item returned by fetch_dynamic, fetch_videos or fetch_articles
\* has a non-empty item_id; for a feed record with neither id_str nor id the
\* item_id is a function of the account id and the author module's pub_ts
\* alone.
C16_ItemIdNeverEmpty ==
    Normalised =>
        \A i \in 1..Len(last.items) :
            /\ last.items[i].item_id # ""
            /\ (last.op = "fetch_dynamic" /\ HasNoId(Records[i])) =>
                    last.items[i].item_id =
                        "dynamic-" \o IntText(last.mid) \o "-" \o PubTsOf(Records[i])

\* What does hold: the feed's items, whatever the record
C16_FeedIdNeverEmpty ==
    (Normalised /\ last.op = "fetch_dynamic") =>
        \A i \in 1..Len(last.items) :
            /\ last.items[i].item_id # ""
            /\ HasNoId(Records[i]) =>
                    last.items[i].item_id =
                        "dynamic-" \o IntText(last.mid) \o "-" \o PubTsOf(Records[i])

\* A video record with an empty aid and no bvid became an item
C16_EmptyVideoId ==
    /\ Normalised
    /\ last.op = "fetch_videos"
    /\ Len(last.items) = 1
    /\ Records[1] = [aid |-> ""]
    /\ last.items[1].item_id = ""

\* An article record with an empty cvid and no id became an item
C16_EmptyArticleId ==
    /\ Normalised
    /\ last.op = "fetch_articles"
    /\ Len(last.items) = 1
    /\ Records[1] = [cvid |-> ""]
    /\ last.items[1].item_id = ""

\* A feed record without ids became an item with the synthetic id
C16_SyntheticId ==
    /\ Normalised
    /\ last.op = "fetch_dynamic"
    /\ Len(last.items) = 1
    /\ HasNoId(Records[1])
    /\ PubTsOf(Records[1]) = "1700000001"
    /\ last.items[1].item_id = "dynamic-7-1700000001"

\* The text at the end of a path of keys, None when a key of the path is
\* absent
RECURSIVE TextAt(_, _)
TextAt(obj, path) ==
    IF ~Has(obj, Head(path)) THEN None
    ELSE IF Len(path) = 1 THEN obj[Head(path)]
    ELSE TextAt(obj[Head(path)], Tail(path))

InMajor(raw, path) == TextAt(raw, <<"modules", "module_dynamic", "major">> \o path)

DescText(raw) == TextAt(raw, <<"modules", "module_dynamic", "desc", "text">>)

\* The record omits keys but holds no null
OmitsKeysOnly(raw) ==
    ~(/\ Has(raw, "modules")
      /\ Has(raw["modules"], "module_author")
      /\ IsNull(raw["modules"]["module_author"]))

\* fetch_dynamic got a reply with code 0 whose records omit keys
FeedListed ==
    /\ last.op = "fetch_dynamic"
    /\ Len(last.resps) = 1
    /\ CodeOk(last.resps[1])
    /\ \A i \in 1..Len(Records) : OmitsKeysOnly(Records[i])

\* The address of a feed record that brings no address of its own
FeedAddress(raw) ==
    IF Truthy(TextAt(raw, <<"id_str">>)) THEN "https://t.bilibili.com/" \o raw["id_str"]
    ELSE IF Truthy(TextAt(raw, <<"id">>)) THEN "https://t.bilibili.com/" \o raw["id"]
    ELSE "https://t.bilibili.com/"

\* Title, summary and address of the item of a record, by the type of the
\* record: the field when it is there, None or the fallback when it is not
FieldsFallBack(raw, item) ==
    LET major_type == InMajor(raw, <<"type">>)
    IN  /\ major_type = "MAJOR_TYPE_ARCHIVE" =>
                /\ item.title = Or(InMajor(raw, <<"archive", "title">>), TITLE_ARCHIVE)
                /\ item.summary = InMajor(raw, <<"archive", "desc">>)
                /\ item.url = IF Truthy(InMajor(raw, <<"archive", "bvid">>))
                                THEN "https://www.bilibili.com/video/"
                                        \o InMajor(raw, <<"archive", "bvid">>)
                                ELSE FeedAddress(raw)
        /\ major_type = "MAJOR_TYPE_ARTICLE" =>
                /\ item.title = Or(InMajor(raw, <<"article", "title">>), TITLE_ARTICLE)
                /\ item.summary = InMajor(raw, <<"article", "desc">>)
                /\ item.url = Or(InMajor(raw, <<"article", "jump_url">>), FeedAddress(raw))
        /\ major_type = "MAJOR_TYPE_LIVE" =>
                /\ item.title = Or(InMajor(raw, <<"live_rcmd", "title">>), TITLE_LIVE)
                /\ item.summary = InMajor(raw, <<"live_rcmd", "content">>)
                /\ item.url = Or(InMajor(raw, <<"live_rcmd", "link">>), FeedAddress(raw))
        /\ major_type = "MAJOR_TYPE_OPUS" =>
                /\ item.title = Or(InMajor(raw, <<"opus", "title">>), TITLE_OPUS)
                /\ InMajor(raw, <<"opus", "jump_url">>) = None => item.url = FeedAddress(raw)
                /\ ~Has(get_object(get_object(get_object(get_object(raw, "modules"),
                            "module_dynamic"), "major"), "opus"), "summary")
                        => item.summary = DescText(raw)
        /\ major_type \notin {"MAJOR_TYPE_ARCHIVE", "MAJOR_TYPE_ARTICLE",
                              "MAJOR_TYPE_LIVE", "MAJOR_TYPE_OPUS"} =>
                /\ item.url = FeedAddress(raw)
                /\ IF TextAt(raw, <<"modules", "module_dynamic", "type">>) = "DYNAMIC_TYPE_WORD"
                     THEN /\ item.title = Or(DescText(raw), TITLE_WORD)
                          /\ item.summary = item.title
                     ELSE /\ item.title = Or(DescText(raw),
                                             Or(TextAt(raw, <<"type">>), TITLE_DYNAMIC))
                          /\ item.summary = DescText(raw)

\* C17: for a feed response with code 0 whose records omit any subset of the
\* optional keys (id_str, id, modules, module_author, module_dynamic, major,
\* desc, the type-specific object and each of its fields), fetch_dynamic
\* returns one item per record (up to limit) without raising, with absent
\* fields mapped to None or to the documented fallback.
C17_MissingKeysTolerated ==
    FeedListed =>
        /\ Returned
        /\ Len(last.items) = Len(Take(Records, last.limit))
        /\ \A i \in 1..Len(last.items) :
            LET raw == Records[i]
                item == last.items[i]
            IN  /\ item.category = CATEGORY_DYNAMIC
                /\ Truthy(item.item_id)
                /\ Truthy(item.title)
                /\ Truthy(item.url)
                /\ item.author = TextAt(raw, <<"modules", "module_author", "name">>)
                /\ TextAt(raw, <<"modules", "module_author", "pub_ts">>) = None
                        => item.published_at = None
                /\ FieldsFallBack(raw, item)

\* A reply of three records, the first of them empty, gave two items, the
\* first made of fallbacks only
C17_Witness ==
    /\ FeedListed
    /\ Returned
    /\ Len(Records) = 3
    /\ last.limit = 2
    /\ Len(last.items) = 2
    /\ DOMAIN Records[1] = {}
    /\ last.items[1] = [category |-> CATEGORY_DYNAMIC, item_id |-> "dynamic-7-0",
                        title |-> TITLE_DYNAMIC, url |-> "https://t.bilibili.com/",
                        author |-> None, published_at |-> None, summary |-> None]

\* The record is a rich-media (opus) post
IsOpus(raw) == InMajor(raw, <<"type">>) = "MAJOR_TYPE_OPUS"

\* The summary object of an opus record, empty when a key on the way is absent
SummaryOf(raw) ==
    LET major == raw["modules"]["module_dynamic"]["major"]
    IN  IF Has(major, "opus") /\ Has(major["opus"], "summary")
            THEN major["opus"]["summary"]
            ELSE EmptyObject

\* The texts of the nodes one after the other, a node without text counting
\* as the empty text
RECURSIVE Concatenated(_)
Concatenated(nodes) ==
    IF nodes = <<>> THEN ""
    ELSE (IF Has(Head(nodes), "text") /\ Head(nodes)["text"] # None
            THEN Head(nodes)["text"] ELSE "")
         \o Concatenated(Tail(nodes))

NodesOf(raw) ==
    IF Has(SummaryOf(raw), "rich_text_nodes") THEN SummaryOf(raw)["rich_text_nodes"] ELSE <<>>

\* C18: for a rich-media (opus) feed record the item's summary is the opus
\* summary text when it is non-empty, otherwise the concatenation in order of
\* the text of its rich-text nodes when that is non-empty, otherwise the
\* module description text; two nodes "Hello" and " world" with no direct
\* summary give "Hello world".
C18_OpusSummary ==
    (FeedListed /\ Returned) =>
        \A i \in 1..Len(last.items) :
            IsOpus(Records[i]) =>
                last.items[i].summary =
                    IF Truthy(TextAt(SummaryOf(Records[i]), <<"text">>))
                        THEN SummaryOf(Records[i])["text"]
                    ELSE IF Concatenated(NodesOf(Records[i])) # ""
                        THEN Concatenated(NodesOf(Records[i]))
                    ELSE DescText(Records[i])

\* An opus record with the nodes "Hello" and " world" and no summary text
\* gave the summary "Hello world"
C18_Witness ==
    /\ FeedListed
    /\ Returned
    /\ Len(last.items) = 1
    /\ IsOpus(Records[1])
    /\ SummaryOf(Records[1]) = [rich_text_nodes |-> <<[text |-> "Hello"], [text |-> " world"]>>]
    /\ last.items[1].summary = "Hello world"

\* An opus record with neither summary text nor node text gave the module
\* description text
C18_DescriptionLast ==
    /\ FeedListed
    /\ Returned
    /\ Len(last.items) = 1
    /\ IsOpus(Records[1])
    /\ NodesOf(Records[1]) # <<>>
    /\ Concatenated(NodesOf(Records[1])) = ""
    /\ last.items[1].summary = "desc text"

-----------------------------------------------------------------------------
(* The generator over the three categories *)

IsFetchAll == last.op = "fetch_all_for_user"

\* The toggle of the category is true, or is missing from the map
ToggledOn(key) == key \notin DOMAIN last.fetch_options \/ last.fetch_options[key]

ToggleOf(fetcher) ==
    IF fetcher = "fetch_dynamic" THEN "dynamic"
    ELSE IF fetcher = "fetch_videos" THEN "video"
    ELSE "article"

\* Feed, videos, articles
PlaceOf(fetcher) ==
    IF fetcher = "fetch_dynamic" THEN 1 ELSE IF fetcher = "fetch_videos" THEN 2 ELSE 3

CategoryOf(fetcher) ==
    IF fetcher = "fetch_dynamic" THEN CATEGORY_DYNAMIC
    ELSE IF fetcher = "fetch_videos" THEN CATEGORY_VIDEO
    ELSE CATEGORY_ARTICLE

\* The places of the trace where a fetcher was invoked
Invocations == {p \in 1..Len(last.trace) : last.trace[p] \in Fetchers}

\* How many items the first n calls returned
RECURSIVE ReturnedBy(_)
ReturnedBy(n) == IF n = 0 THEN 0 ELSE ReturnedBy(n - 1) + Len(last.calls[n].items)

\* The items the calls returned, one list after the other
RECURSIVE AllReturned(_)
AllReturned(n) == IF n = 0 THEN <<>> ELSE AllReturned(n - 1) \o last.calls[n].items

YieldedBefore(p) == Cardinality({q \in 1..(p - 1) : last.trace[q] = "yield"})

\* C19: fetch_all_for_user invokes only the fetchers whose toggle is true (a
\* toggle missing from the map counts as true), in the fixed order feed,
\* videos, articles, and yields every item of one category before the next
\* fetcher is invoked; a disabled category causes no network request and the
\* sequence is finite.
C19_FetchAllInOrder ==
    IsFetchAll =>
        LET calls == last.calls
            n == Len(calls)
        IN  \* only the fetchers that are toggled on, and all of them when the
            \* consumer drains the generator and none raises
            /\ \A i \in 1..n : ToggledOn(ToggleOf(calls[i].fetcher))
            /\ last.exhausted =>
                    {calls[i].fetcher : i \in 1..n} =
                        {f \in Fetchers : ToggledOn(ToggleOf(f))}
            \* in the fixed order
            /\ \A i, j \in 1..n : i < j => PlaceOf(calls[i].fetcher) < PlaceOf(calls[j].fetcher)
            \* the trace shows the same invocations
            /\ Cardinality(Invocations) = n
            /\ \A p \in Invocations :
                LET j == Cardinality({q \in Invocations : q <= p})
                IN  /\ last.trace[p] = calls[j].fetcher
                    \* every item of the calls before was yielded by then
                    /\ YieldedBefore(p) = ReturnedBy(j - 1)
            \* what was yielded is what the calls returned, call by call
            /\ Len(last.items) <= Len(AllReturned(n))
            /\ last.items = Take(AllReturned(n), Len(last.items))
            /\ (last.exhausted \/ (last.consumer.drain /\ last.exc = NoExc))
                    => last.items = AllReturned(n)
            /\ \A i \in 1..n : \A k \in 1..Len(calls[i].items) :
                    calls[i].items[k].category = CategoryOf(calls[i].fetcher)
            \* no request outside an invocation, so none for a disabled category
            /\ \A p \in 1..Len(last.trace) :
                    IsRequest(last.trace[p]) => \E q \in Invocations : q < p
            /\ (\A f \in Fetchers : ~ToggledOn(ToggleOf(f))) =>
                    /\ last.trace = <<>>
                    /\ last.items = <<>>
                    /\ Globals = last.pre
            \* finite: at most three calls, each returning a finite list
            /\ n <= 3
            /\ Len(last.items) <= ReturnedBy(n)
            /\ last.consumer.drain => (last.exhausted \/ last.exc # NoExc)

\* With the feed's toggle missing, the videos' false and the articles' true,
\* the drained generator called the feed's fetcher and the articles' fetcher
\* and yielded the items of both, the feed's first
C19_Witness ==
    /\ IsFetchAll
    /\ last.fetch_options = [video |-> FALSE, article |-> TRUE]
    /\ last.consumer.drain
    /\ last.exhausted
    /\ Len(last.calls) = 2
    /\ last.calls[1].fetcher = "fetch_dynamic"
    /\ last.calls[2].fetcher = "fetch_articles"
    /\ Len(last.calls[1].items) = 2
    /\ Len(last.calls[2].items) = 2
    /\ Len(last.items) = 4
    /\ last.items[2].category = CATEGORY_DYNAMIC
    /\ last.items[3].category = CATEGORY_ARTICLE
    /\ Count(last.trace, "content") = 2

\* A consumer that stopped after the feed's last item: the next fetcher was
\* not invoked
C19_Suspended ==
    /\ IsFetchAll
    /\ ~last.consumer.drain
    /\ last.consumer.n = 2
    /\ \A f \in Fetchers : ToggledOn(ToggleOf(f))
    /\ Len(last.items) = 2
    /\ Len(last.calls) = 1
    /\ Len(last.calls[1].items) = 2
    /\ ~last.exhausted

-----------------------------------------------------------------------------
(* The polling cycle *)

IsCycle == last.op = "run_once"

StartsWith(text, prefix) == Len(text) >= Len(prefix) /\ SubSeq(text, 1, Len(prefix)) = prefix

\* The call raised the API error of code -352 or of code -799
RaisedSkippable(call) ==
    /\ call.exc.type = "RuntimeError"
    /\ \/ StartsWith(call.exc.text, "Bilibili API error -352: ")
       \/ StartsWith(call.exc.text, "Bilibili API error -799: ")

\* The call raised something else
RaisedOther(call) == call.exc # NoExc /\ ~RaisedSkippable(call)

\* The fetchers of the categories that are enabled and come after fetcher f
RemainingAfter(f) ==
    {g \in Fetchers : PlaceOf(g) > PlaceOf(f) /\ last.fetch_options[ToggleOf(g)]}

\* The ledger held entries of the user when the cycle began
WasPrimed(mid) ==
    /\ IntText(mid) \in DOMAIN last.pre_seen
    /\ \E c \in DOMAIN last.pre_seen[IntText(mid)] : last.pre_seen[IntText(mid)][c] # <<>>

WasSeen(mid, item) ==
    /\ IntText(mid) \in DOMAIN last.pre_seen
    /\ item.category \in DOMAIN last.pre_seen[IntText(mid)]
    /\ IsIn(item.item_id, last.pre_seen[IntText(mid)][item.category])

IsRemembered(mid, item) ==
    /\ IntText(mid) \in DOMAIN seen
    /\ item.category \in DOMAIN seen[IntText(mid)]
    /\ IsIn(item.item_id, seen[IntText(mid)][item.category])

C20_PrimingCycle ==
    /\ IsCycle
    /\ ~WasPrimed(7)
    /\ LET report == last.reports[1]
       IN  /\ Len(report.calls) >= 2
           /\ RaisedSkippable(report.calls[1])
           /\ Len(report.calls[2].items) = 2
           /\ report.primed
           /\ report.notified = <<>>
           /\ queue_of(seen, 7, CATEGORY_VIDEO) = <<"a", "b">>

\* A remaining category that fails otherwise ends the user's cycle: nothing
\* of what the category before it returned is notified or remembered
C20_LaterFailure ==
    /\ IsCycle
    /\ WasPrimed(7)
    /\ LET report == last.reports[1]
       IN  /\ Len(report.calls) = 3
           /\ RaisedSkippable(report.calls[1])
           /\ Len(report.calls[2].items) = 2
           /\ RaisedOther(report.calls[3])
           /\ report.exc = report.calls[3].exc
           /\ report.notified = <<>>
           /\ seen = last.pre_seen

-----------------------------------------------------------------------------
(* The ticket and its cookies *)

\* The call that ran last asked for a ticket and got one
TicketIssued ==
    /\ IsFetch
    /\ Len(last.replies.ticket) = 1
    /\ last.replies.ticket[1].ok
    /\ Truthy(last.replies.ticket[1].ticket)

\* The call that ran last asked for a ticket and got none
TicketRefused ==
    /\ IsFetch
    /\ Len(last.replies.ticket) = 1
    /\ ~(last.replies.ticket[1].ok /\ Truthy(last.replies.ticket[1].ticket))

\* C21: whenever a ticket is cached, the bili_ticket cookie equals the cached
\* ticket, the bili_ticket_expires cookie equals the cached expiry, and the
\* cached expiry equals the issuance timestamp plus 259200 seconds (3 days);
\* this holds after any sequence of successful and failed refreshes.
C21_TicketMirrored ==
    /\ Truthy(BILI_TICKET) =>
            /\ cookies["bili_ticket"] = BILI_TICKET
            /\ cookies["bili_ticket_expires"] = IntText(BILI_TICKET_EXPIRES_AT)
    \* the expiry is that of the issuance: set when a ticket is issued, to the
    \* time of the request plus three days, and kept by every other call
    /\ TicketIssued =>
            /\ BILI_TICKET = last.replies.ticket[1].ticket
            /\ BILI_TICKET_EXPIRES_AT = last.pre.clock + 259200
    /\ (IsFetch /\ ~TicketIssued) =>
            /\ BILI_TICKET = last.pre.BILI_TICKET
            /\ BILI_TICKET_EXPIRES_AT = last.pre.BILI_TICKET_EXPIRES_AT
    /\ last.op = "apply_auth_cookies" =>
            /\ BILI_TICKET = last.pre.BILI_TICKET
            /\ BILI_TICKET_EXPIRES_AT = last.pre.BILI_TICKET_EXPIRES_AT

\* A second ticket has replaced an expired one, and the cookies follow it
C21_Witness ==
    /\ TicketIssued
    /\ Truthy(last.pre.BILI_TICKET)
    /\ BILI_TICKET # last.pre.BILI_TICKET
    /\ last.pre.clock > Epoch
    /\ cookies["bili_ticket"] = BILI_TICKET
    /\ cookies["bili_ticket_expires"] = IntText(last.pre.clock + 259200)

\* After a refresh that failed the cached ticket still has its cookies
C21_AfterFailure ==
    /\ TicketRefused
    /\ Truthy(BILI_TICKET)
    /\ cookies["bili_ticket"] = BILI_TICKET
    /\ cookies["bili_ticket_expires"] = IntText(BILI_TICKET_EXPIRES_AT)

-----------------------------------------------------------------------------
(* The configured cookies *)

IsApply == last.op = "apply_auth_cookies"

\* The platform's name of each field
PlatformName ==
    [sessdata |-> "SESSDATA", bili_jct |-> "bili_jct", buvid3 |-> "buvid3",
     buvid4 |-> "buvid4", dedeuserid |-> "DedeUserID",
     dedeuserid_ckmd5 |-> "DedeUserID__ckMd5"]

NonEmptyFields == {f \in DOMAIN last.bundle : last.bundle[f] # None /\ last.bundle[f] # ""}

\* C22: apply_auth_cookies never raises and, for any subset of the six fields
\* being non-empty (and for a None or empty bundle), sets exactly the cookies
\* of the non-empty fields under the platform names SESSDATA, bili_jct,
\* buvid3, buvid4, DedeUserID, DedeUserID__ckMd5, leaving every other cookie
\* and every cache unchanged.
C22_AuthCookiesApplied ==
    IsApply =>
        /\ last.exc = NoExc
        /\ \A f \in NonEmptyFields : cookies[PlatformName[f]] = last.bundle[f]
        /\ \A c \in DOMAIN cookies :
                c \notin {PlatformName[f] : f \in NonEmptyFields}
                    => cookies[c] = last.pre.cookies[c]
        /\ DOMAIN cookies = DOMAIN last.pre.cookies
        /\ BUVID_FETCHED = last.pre.BUVID_FETCHED
        /\ BUVID_PAIR = last.pre.BUVID_PAIR
        /\ BILI_TICKET = last.pre.BILI_TICKET
        /\ BILI_TICKET_EXPIRES_AT = last.pre.BILI_TICKET_EXPIRES_AT
        /\ WBI_MIXIN_KEY = last.pre.WBI_MIXIN_KEY
        /\ WBI_LAST_FETCHED = last.pre.WBI_LAST_FETCHED

\* Three fields applied to a session with every cache filled: their three
\* cookies are set, the device cookies and the ticket's stay
C22_Witness ==
    /\ IsApply
    /\ NonEmptyFields = {"sessdata", "dedeuserid", "dedeuserid_ckmd5"}
    /\ last.bundle["buvid3"] = ""
    /\ last.pre.BUVID_FETCHED
    /\ Truthy(last.pre.BILI_TICKET)
    /\ Truthy(last.pre.WBI_MIXIN_KEY)
    /\ cookies["SESSDATA"] = last.bundle["sessdata"]
    /\ cookies["DedeUserID__ckMd5"] = last.bundle["dedeuserid_ckmd5"]
    /\ cookies["buvid3"] = "srv3"
    /\ cookies["bili_ticket"] = "tkA"

-----------------------------------------------------------------------------
(* The fingerprint's hash *)

IsMurmur == last.op = "murmur3_x64_128"

\* The value of the first 4 bytes, for comparison with known values
Low4(out) == out[1] + 256 * out[2] + 65536 * out[3]

\* C23: _murmur3_x64_128 depends only on its arguments: for a fixed seed,
\* identical byte strings give identical outputs in the range 0..2^128-1 for
\* every input length (0, multiples of 16, and lengths with a 1..15-byte
\* tail), and two inputs that differ in one byte give different outputs.
C23_MurmurFunction ==
    IsMurmur =>
        /\ Len(last.out) = 16
        /\ \A i \in 1..16 : last.out[i] \in 0..255
        /\ last.other # last.data => last.out_other # last.out
        /\ last.other = last.data => last.out_other = last.out

\* A whole chunk and a 15-byte tail, the inputs differing in the last byte
C23_Witness ==
    /\ IsMurmur
    /\ Len(last.data) = 31
    /\ last.pos = 31
    /\ last.seed = 31
    /\ last.other # last.data
    /\ last.out_other # last.out

\* The empty input with seed 0 hashes to 0
C23_Empty ==
    /\ IsMurmur
    /\ last.data = <<>>
    /\ last.seed = 0
    /\ \A i \in 1..16 : last.out[i] = 0

-----------------------------------------------------------------------------
(* The device identity, once the flow has completed *)

DeviceCompleted == IsFetch /\ last.pre.BUVID_FETCHED

\* C24: once _ensure_buvid has completed once, whether through trusted
\* cookies, successful activation or local fallback, no later call issues a
\* fingerprint-issuance or activation request or changes the stored device
\* identity; a fallback identity is never replaced by a later attempt.
C24_DeviceOnce ==
    /\ IsFetch => BUVID_FETCHED
    /\ DeviceCompleted =>
        /\ Count(last.trace, "spi") = 0
        /\ Count(last.trace, "activate") = 0
        /\ Count(last.trace, "buvid_fallback") = 0
        /\ BUVID_PAIR = last.pre.BUVID_PAIR
        /\ Jar("buvid3") = last.pre.cookies["buvid3"]
        /\ Jar("buvid4") = last.pre.cookies["buvid4"]
        /\ Jar("buvid_fp") = last.pre.cookies["buvid_fp"]
    /\ last.op = "apply_auth_cookies" =>
        /\ BUVID_FETCHED = last.pre.BUVID_FETCHED
        /\ BUVID_PAIR = last.pre.BUVID_PAIR

\* A local identity made by a failed bootstrap, kept by a later fetch that
\* reaches the content endpoint
C24_Witness ==
    /\ DeviceCompleted
    /\ last.pre.BUVID_PAIR \in LocalPairs
    /\ BUVID_PAIR = last.pre.BUVID_PAIR
    /\ Jar("buvid3") = BUVID_PAIR[1]
    /\ Count(last.trace, "content") >= 1
    /\ Count(last.trace, "spi") = 0

\* An activated identity, kept by a later fetch
C24_Activated ==
    /\ DeviceCompleted
    /\ last.pre.BUVID_PAIR = <<"srv3", "srv4">>
    /\ last.pre.cookies["buvid_fp"] = "murmur_fp"
    /\ BUVID_PAIR = last.pre.BUVID_PAIR
    /\ Count(last.trace, "content") >= 1

\* An identity taken from the configured cookies, kept by a later fetch
C24_Trusted ==
    /\ DeviceCompleted
    /\ last.pre.BUVID_PAIR = <<AuthValue("buvid3"), AuthValue("buvid4")>>
    /\ BUVID_PAIR = last.pre.BUVID_PAIR
    /\ Count(last.trace, "content") >= 1

-----------------------------------------------------------------------------
(* A ticket-issuance call that fails or brings no ticket *)

TicketKept ==
    /\ BILI_TICKET = last.pre.BILI_TICKET
    /\ BILI_TICKET_EXPIRES_AT = last.pre.BILI_TICKET_EXPIRES_AT
    /\ cookies["bili_ticket"] = last.pre.cookies["bili_ticket"]
    /\ cookies["bili_ticket_expires"] = last.pre.cookies["bili_ticket_expires"]

\* No ticket is cached, or the cached one is within a minute of its expiry
TicketDue == ~ticket_is_fresh(Start)

\* While a ticket is due, a fetch sends a ticket-issuance request, and the
\* passing of time leaves the ticket due
DueTicketIsRequested ==
    TicketDue =>
        /\ last'.op \in Fetchers => Count(last'.trace, "ticket") = 1
        /\ last'.op = "tick" => TicketDue'

\* C25: when a ticket-issuance call fails or returns no ticket, the cached
\* ticket, its expiry and the bili_ticket / bili_ticket_expires cookies keep
\* the values they had before the call, and the next _ensure_bili_ticket call
\* attempts issuance again.
C25_FailedIssuance ==
    /\ [](TicketRefused => TicketKept /\ TicketDue)
    /\ [][DueTicketIsRequested]_vars

\* An expired ticket, a refresh that fails, and the old ticket still cached
C25_Witness ==
    /\ TicketRefused
    /\ Truthy(last.pre.BILI_TICKET)
    /\ ~last.replies.ticket[1].ok
    /\ BILI_TICKET = last.pre.BILI_TICKET
    /\ cookies["bili_ticket"] = BILI_TICKET
    /\ now >= BILI_TICKET_EXPIRES_AT - 60

\* No ticket cached, a reply without a ticket, and still none
C25_NoTicket ==
    /\ TicketRefused
    /\ last.replies.ticket[1].ok
    /\ ~Truthy(last.pre.BILI_TICKET)
    /\ ~Truthy(BILI_TICKET)
    /\ BILI_TICKET_EXPIRES_AT = 0

-----------------------------------------------------------------------------
(* The retry after -799 *)

\* The fetcher signed a second request
Retried == IsSigned /\ Len(last.signed) = 2

\* The last five events of the trace
RetryTail == SubSeq(last.trace, Len(last.trace) - 4, Len(last.trace))

\* C26: in a -799 retry of fetch_videos or fetch_articles, the forced
\* signing-key refresh happens after the first content response and before
\* the second content request, and the second request's w_rid is computed
\* with the key returned by that refresh, not with the key used for the first
\* request.
C26_RetryWithRefreshedKey ==
    Retried =>
        /\ Len(last.trace) >= 5
        /\ RetryTail = <<"content", "force_refresh", "nav", "sleep", "content">>
        /\ Count(last.trace, "content") = 2
        /\ Count(last.trace, "force_refresh") = 1
        /\ Code799(last.resps[1])
        /\ Usable(LastNav)
        /\ last.signed[2].mixin_key = derive_mixin_key(LastNav.img_url, LastNav.sub_url)
        /\ last.signed[2].mixin_key = WBI_MIXIN_KEY

\* The first request signed with a cached key, the second with another key,
\* the one of the refresh
C26_Witness ==
    /\ Retried
    /\ last.signed[1].mixin_key = last.pre.WBI_MIXIN_KEY
    /\ Len(last.replies.nav) = 1
    /\ last.signed[2].mixin_key = derive_mixin_key(LastNav.img_url, LastNav.sub_url)
    /\ last.signed[2].mixin_key # last.signed[1].mixin_key
    /\ Returned

\* The refresh returns the key the first request was signed with
C26_SameKey ==
    /\ Retried
    /\ last.signed[2].mixin_key = last.signed[1].mixin_key
    /\ Len(last.replies.nav) = 2

-----------------------------------------------------------------------------
(* The ledger across cycles *)

\* The ledger as report u of the cycle found it
RECURSIVE LedgerAt(_)
LedgerAt(u) ==
    IF u = 1 THEN last.pre_seen
    ELSE LET before == last.reports[u - 1]
         IN  bulk_remember(LedgerAt(u - 1), before.mid,
                           IF before.primed THEN before.items ELSE before.notified)

\* The queue of the item's category as it was when the i-th notification of
\* report u was made
QueueBefore(u, i) ==
    LET report == last.reports[u]
    IN  queue_of(bulk_remember(LedgerAt(u), report.mid, SubSeq(report.notified, 1, i - 1)),
                 report.mid, report.notified[i].category)

EntryOf(mid, item) ==
    [mid |-> IntText(mid), category |-> item.category, item_id |-> item.item_id]

\* C27 as stated: no item is notified twice for the same user: once an item
\* (account, category, item_id) has been notified or recorded by priming, no
\* later polling cycle notifies it again, for any sequence of fetch results.
C27_Original ==
    IsCycle =>
        \A u \in 1..Len(last.reports) : \A i \in 1..Len(last.reports[u].notified) :
            EntryOf(last.reports[u].mid, last.reports[u].notified[i]) \notin last.recorded

\* C27: an item is notified only when its id is not in the ledger's queue of
\* its category, and an item that was notified or recorded by priming before
\* is notified again only when the queue has been full, so that newer ids
\* have pushed its id out.
C27_NotifiedOncePerQueue ==
    IsCycle =>
        \A u \in 1..Len(last.reports) : \A i \in 1..Len(last.reports[u].notified) :
            LET report == last.reports[u]
                item == report.notified[i]
            IN  /\ ~IsIn(item.item_id, QueueBefore(u, i))
                /\ EntryOf(report.mid, item) \in last.recorded =>
                        Len(QueueBefore(u, i)) = max_ids_per_category
                /\ \A j \in 1..(i - 1) :
                        EntryOf(report.mid, report.notified[j]) = EntryOf(report.mid, item)
                            => Len(QueueBefore(u, i)) = max_ids_per_category

\* Two items notified in one cycle come back in the next and are not
\* notified again
C27_Witness ==
    /\ IsCycle
    /\ last.loaded = NoLedger
    /\ Cardinality(last.recorded) = 4
    /\ last.fetch_options = [dynamic |-> TRUE, video |-> TRUE, article |-> FALSE]
    /\ Len(last.reports[1].calls) = 2
    /\ Len(last.reports[1].calls[2].items) = 2
    /\ \A i \in 1..2 : EntryOf(7, last.reports[1].calls[2].items[i]) \in last.recorded
    /\ last.reports[1].notified = <<>>

\* The oldest id of a full queue, pushed out by a new item in one cycle, is
\* notified in the next
C27_Evicted ==
    /\ IsCycle
    /\ last.loaded = FullLedger
    /\ \E i \in 1..Len(last.reports[1].notified) :
        /\ last.reports[1].notified[i].item_id = "a"
        /\ last.reports[1].notified[i].category = CATEGORY_VIDEO
        /\ EntryOf(7, last.reports[1].notified[i]) \in last.recorded

-----------------------------------------------------------------------------
(* The items that exist when monitoring starts *)

\* The call is the first of its category to return a list for the account
\* since the process started without a state file
FirstFetch(report, call) ==
    /\ last.loaded = NoLedger
    /\ report.exc = NoExc
    /\ call.exc = NoExc
    /\ [mid |-> report.mid, fetcher |-> call.fetcher] \notin last.fetched

\* C28: items that already exist when monitoring of a user starts are never
\* notified: for each enabled category, the items returned by the first
\* successful fetch of that category are recorded as seen without any
\* notification, also when another category's fetch was skipped (-352 / -799)
\* in the cycle that primed the user.
C28_ExistingNeverNotified ==
    IsCycle =>
        \A u \in 1..Len(last.reports) : \A c \in 1..Len(last.reports[u].calls) :
            LET report == last.reports[u]
                call == report.calls[c]
            IN  FirstFetch(report, call) =>
                    \A k \in 1..Len(call.items) :
                        /\ ~IsIn(call.items[k], report.notified)
                        /\ IsRemembered(report.mid, call.items[k])

\* The feed primed the account in a cycle whose video fetch was skipped; the
\* videos' first list came in the next cycle and both its items were notified
C28_SkippedThenNotified ==
    /\ IsCycle
    /\ last.loaded = NoLedger
    /\ last.fetched = {[mid |-> 7, fetcher |-> "fetch_dynamic"]}
    /\ queue_of(last.pre_seen, 7, CATEGORY_DYNAMIC) = <<"a", "b">>
    /\ queue_of(last.pre_seen, 7, CATEGORY_VIDEO) = <<>>
    /\ Len(last.reports[1].calls) = 2
    /\ last.reports[1].calls[2].fetcher = "fetch_videos"
    /\ Len(last.reports[1].calls[2].items) = 2
    /\ ~last.reports[1].primed
    /\ [i \in 1..Len(last.reports[1].notified) |->
            <<last.reports[1].notified[i].category, last.reports[1].notified[i].item_id>>]
        = <<<<CATEGORY_VIDEO, "a">>, <<CATEGORY_VIDEO, "b">>>>

\* Every enabled category returned a list in the first cycle: all of it is
\* recorded and nothing is notified
C28_PrimedTogether ==
    /\ IsCycle
    /\ last.loaded = NoLedger
    /\ last.fetched = {}
    /\ Len(last.reports[1].calls) = 2
    /\ \A c \in 1..2 : Len(last.reports[1].calls[c].items) = 2
    /\ last.reports[1].primed
    /\ last.reports[1].notified = <<>>
    /\ Len(queue_of(seen, 7, CATEGORY_VIDEO)) = 2

-----------------------------------------------------------------------------
(* Two invocations at once *)

IsThreads == last.op = "threads"

BothDone == IsThreads /\ last.pc = <<"done", "done">>

\* The refresh the sequence is there for was due when the threads entered
RefreshDue ==
    IF last.resource = "ticket" THEN ~ticket_is_fresh([g |-> last.pre])
    ELSE IF last.resource = "key"
        THEN ~Truthy(last.pre.WBI_MIXIN_KEY)
                \/ last.pre.clock - last.pre.WBI_LAST_FETCHED > WBI_KEY_LIFETIME
    ELSE ~last.pre.BUVID_FETCHED

\* C29 as stated: each cache's check-then-refresh is atomic: starting with
\* the ticket absent or expired (the signing key absent or stale, the device
\* flow not yet run), the two invocations together issue at most one
\* ticket-issuance (navigation, fingerprint-issuance) request.
C29_Original == IsThreads /\ RefreshDue => last.sent[1] + last.sent[2] <= 1

\* C29: nothing guards a check-then-refresh.  Each invocation sends at most
\* one request of the sequence's kind, two invocations at once at most two;
\* an invocation sends none when it makes its check after the other has
\* finished with its refresh stored.
C29_OneRequestEach ==
    IsThreads =>
        \A t \in Threads :
            /\ last.sent[t] <= 1
            /\ (last.after[t] /\ last.stored[Other(t)]) => last.sent[t] = 0
            /\ last.sent[t] = 1 => RefreshDue

\* The ticket was due; the second thread made its check after the first had
\* stored a ticket, and sent no request
C29_Witness ==
    /\ BothDone
    /\ last.resource = "ticket"
    /\ RefreshDue
    /\ Truthy(last.pre.BILI_TICKET)
    /\ last.after[2]
    /\ last.stored[1]
    /\ last.sent = <<1, 0>>

\* Both threads found the ticket due and both sent a request
C29_TwoTickets ==
    /\ BothDone
    /\ last.resource = "ticket"
    /\ last.sent = <<1, 1>>
    /\ last.stored = <<TRUE, TRUE>>

\* Both threads found the key stale and both sent a navigation request
C29_TwoNavigations ==
    /\ BothDone
    /\ last.resource = "key"
    /\ Truthy(last.pre.WBI_MIXIN_KEY)
    /\ last.sent = <<1, 1>>

\* Both threads found the device flow not run and both sent a
\* fingerprint-issuance request
C29_TwoFingerprints ==
    /\ BothDone
    /\ last.resource = "device"
    /\ last.sent = <<1, 1>>
    /\ BUVID_FETCHED

-----------------------------------------------------------------------------
(* The length of the list *)

\* C30: the list returned by fetch_dynamic(mid, limit), fetch_videos(mid,
\* limit) and fetch_articles(mid, limit) has at most limit items for every
\* server response, including a response that carries more records than were
\* requested.
C30_AtMostLimit == IsFetch /\ Returned => Len(last.items) <= last.limit

\* fetch_videos with limit 2 and a response of three records: three items
C30_VideosOverLimit ==
    /\ last.op = "fetch_videos"
    /\ Returned
    /\ last.limit = 2
    /\ Len(last.resps[Len(last.resps)].records) = 3
    /\ Len(last.items) = 3

\* fetch_dynamic and fetch_articles cut the same response to the limit
C30_OthersCut ==
    /\ last.op \in {"fetch_dynamic", "fetch_articles"}
    /\ Returned
    /\ last.limit = 2
    /\ Len(last.resps[Len(last.resps)].records) = 3
    /\ ItemIds = <<"c", "b">>

-----------------------------------------------------------------------------
(* A user that fails in a cycle of several users *)

\* The ledger after one item after the other has been remembered
RECURSIVE RememberedEach(_, _, _)
RememberedEach(ledger, mid, items) ==
    IF items = <<>> THEN ledger
    ELSE RememberedEach(remember(ledger, mid, Head(items).category, Head(items).item_id),
                        mid, Tail(items))

\* The ledger after what the reports say was remembered: the items of a
\* user that was primed, the items notified of any other
RECURSIVE RememberedOf(_, _)
RememberedOf(ledger, reports) ==
    IF reports = <<>> THEN ledger
    ELSE LET r == Head(reports)
         IN  RememberedOf(RememberedEach(ledger, r.mid,
                                         IF r.primed THEN r.items ELSE r.notified),
                          Tail(reports))

\* The users whose processing raised in the cycle
FailedUsers == {u \in 1..Len(last.reports) : last.reports[u].exc # NoExc}

\* C31: in run_once, an exception raised while a user is processed (fetch,
\* normalization or notification) does not stop the cycle: nothing leaves
\* the loop, every configured user is processed in the configured order, the
\* later ones included; the ledger is saved once, at the end, and it is the
\* ledger the cycle began with plus what was remembered for each user, for a
\* failed user what was remembered before the exception.
C31_FailureDoesNotStopCycle ==
    IsCycle =>
        /\ last.exc = NoExc
        /\ Len(last.reports) = Len(last.users)
        /\ \A u \in 1..Len(last.users) : last.reports[u].mid = last.users[u]
        /\ last.saves = 1
        /\ last.saved = RememberedOf(last.pre_seen, last.reports)
        /\ seen = last.saved

\* The first user fails on a record without an author, the second one is
\* primed with two items, which the saved ledger holds
C31_Witness ==
    /\ IsCycle
    /\ Len(last.users) = 2
    /\ last.reports[1].exc = AttributeError
    /\ last.reports[2].primed
    /\ Len(last.reports[2].items) = 2
    /\ \A i \in 1..2 : is_seen(last.saved, last.users[2], last.reports[2].items[i].category,
                                 last.reports[2].items[i].item_id)

\* The first user fails to connect, the second one is notified of an item by
\* a working notifier after a crashing one
C31_NotifierCrashed ==
    /\ IsCycle
    /\ Len(last.users) = 2
    /\ last.reports[1].exc = TransportError
    /\ env.notifiers = <<TransportError, NoExc>>
    /\ last.reports[2].exc = NoExc
    /\ last.reports[2].notified # <<>>

-----------------------------------------------------------------------------
(* The queues of the ledger *)

IsLedgerCall == last.op \in {"remember", "bulk_remember"}

NoDuplicates(seq) == \A i, j \in 1..Len(seq) : seq[i] = seq[j] => i = j

\* C32: after any sequence of remember and bulk_remember calls on a ledger
\* that started empty, every (account, category) queue holds no id twice and
\* at most max_ids_per_category (50) ids; it is the latest 50 of the ids
\* appended to it, in the order they were appended, so the ids that left it
\* are the oldest ones; and is_seen is true exactly for the ids in the queue.
C32_QueuesAreBoundedFifo ==
    IsLedgerCall =>
        \A mid \in QueueMids, category \in QueueCategories :
            LET dq == queue_of(seen, mid, category)
            IN  /\ NoDuplicates(dq)
                /\ Len(dq) <= max_ids_per_category
                /\ dq = LastN(last.log[<<mid, category>>], max_ids_per_category)
                /\ \A item_id \in QueueIds :
                        is_seen(seen, mid, category, item_id) <=> IsIn(item_id, dq)

\* remember of a new id on a full queue whose oldest id is "a": "a" has left
\* the queue, the second oldest id is now the oldest, the new id the latest
C32_Witness ==
    /\ last.op = "remember"
    /\ last.mid = 7
    /\ last.entries[1].category = CATEGORY_VIDEO
    /\ Len(queue_of(last.pre_seen, 7, CATEGORY_VIDEO)) = max_ids_per_category
    /\ Head(queue_of(last.pre_seen, 7, CATEGORY_VIDEO)) = "a"
    /\ ~is_seen(last.pre_seen, 7, CATEGORY_VIDEO, last.entries[1].item_id)
    /\ ~is_seen(seen, 7, CATEGORY_VIDEO, "a")
    /\ Len(queue_of(seen, 7, CATEGORY_VIDEO)) = max_ids_per_category
    /\ Head(queue_of(seen, 7, CATEGORY_VIDEO)) = "f1"
    /\ queue_of(seen, 7, CATEGORY_VIDEO)[max_ids_per_category] = last.entries[1].item_id

\* An id that had left the queue is remembered again: it is the latest id
C32_RememberedAgain ==
    /\ last.op = "remember"
    /\ last.mid = 7
    /\ last.entries[1] = Entry(CATEGORY_VIDEO, "f1")
    /\ IsIn("f1", last.log[<<7, CATEGORY_VIDEO>>])
    /\ ~is_seen(last.pre_seen, 7, CATEGORY_VIDEO, "f1")
    /\ Len(queue_of(seen, 7, CATEGORY_VIDEO)) = max_ids_per_category
    /\ queue_of(seen, 7, CATEGORY_VIDEO)[max_ids_per_category] = "f1"

====
